---------------------------- MODULE Spec2Model ----------------------------
(***************************************************************************)
(* State-machine model of the soul-provider storefront: cart handlers,     *)
(* checkout / order creation, registration and the migration runner.       *)
(* Every `await db.*` of a handler is one step, so that handlers of        *)
(* different requests interleave exactly at the points where the Node      *)
(* event loop can switch between them.  Each statement is auto-committed   *)
(* (the handlers open no transaction), so a statement's effect on the      *)
(* tables is visible and permanent as soon as its step has been taken.     *)
(*                                                                         *)
(* Money is held in integer cents; Math.round(x * 100) / 100 of the source *)
(* is rounding to the nearest cent (half up).  SQL NULL / JS null is NULL. *)
(***************************************************************************)
EXTENDS Integers, Sequences, FiniteSets, TLC

NULL == 0

\* ----- bounds of the model ------------------------------------------------
MaxAdds     == 3      \* add-to-cart requests per behaviour
MaxCheckout == 2      \* checkout requests (previews, commits) per behaviour

\* ----- the universe of the shop ------------------------------------------
Humans   == {1, 2}            \* customers.human_id of logged-in sessions
Products == {1, 2}            \* products.id
Songs    == {1}               \* songs.id
Requests == {1, 2}            \* HTTP requests that may be in flight at once

Price(p) == IF p = 1 THEN 4499 ELSE 3859     \* products.price of the seed data, in cents

\* ----- tables --------------------------------------------------------------
VARIABLES
  cart_items,      \* set of [id, human_id, product_id, song_id, quantity]
  nextCartId,      \* AUTOINCREMENT counter of cart_items
  coupons,         \* set of coupon rows
  orders,          \* set of [id, human_id, subtotal, discount_amount, tax_amount, total_amount]
  nextOrderId,     \* AUTOINCREMENT counter of orders
  order_items,     \* set of [order_id, seq, product_id, quantity, unit_price, line_total]
  order_coupons,   \* set of [order_id, coupon_id, discount_applied]
  req,             \* per request slot: the handler running in it and its locals
  nAdds,           \* number of add-to-cart requests started
  nCheckout,       \* number of checkout requests (previews, commits) started
  added,           \* per (human, product, song): adds answered 200 so far
                   \* since the row was last removed
  nDel,            \* number of remove-from-cart requests started
  cartHandler      \* which addToCart is deployed: "productOnly" is
                   \* controllers/cartController.js, "productOrSong" the
                   \* handler with song support

shopVars == <<cart_items, nextCartId, coupons, orders, nextOrderId,
              order_items, order_coupons, req, nAdds, nCheckout,
              added, nDel, cartHandler>>

\* ----- identity tables (migration 001) --------------------------------------
VARIABLES
  humans,            \* set of humans.id
  nextHumanId,       \* AUTOINCREMENT counter of humans
  customers,         \* set of [human_id, username]
  email_history,     \* set of [id, human_id, email, effective_to, change_reason]
  nextEmailId,       \* AUTOINCREMENT counter of email_history
  human_site_roles,  \* set of [human_id, site_role_id, expires_at]
  areq,              \* per request slot: the identity handler running in it
  nReg,              \* number of registration requests started
  nUpd,              \* number of email-update requests started
  clock,             \* datetime('now')
  preq,              \* per request slot: the permission check or role handler
  nRbac              \* number of permission checks and role changes started

rbacVars == <<clock, preq, nRbac>>

identityVars == <<humans, nextHumanId, customers, email_history, nextEmailId,
                  human_site_roles, areq, nReg, nUpd, rbacVars>>

\* ----- migration runner (db/migrate.js) --------------------------------------
VARIABLES
  ledger,        \* the migrations table: set of executed migration ids
  executedOrder, \* the ids of its rows, oldest executed_at first
  upCount,       \* per migration: completed up() calls not yet reversed by down()
  usersTable,    \* does the legacy users table exist
  legacyUsers,   \* number of rows of the legacy users table
  mappingTable,  \* does user_human_mapping exist
  run,           \* the runner process: command, position, locals
  nRuns          \* number of runner invocations so far

migrateVars == <<ledger, executedOrder, upCount, usersTable, legacyUsers, mappingTable,
                 run, nRuns>>

\* ----- catalog: products, songs and the album bridge (migrations 005, 006) ----
VARIABLES
  products,        \* set of [id, type]
  nextProductId,   \* AUTOINCREMENT counter of products
  songs,           \* set of song ids
  nextSongId,      \* AUTOINCREMENT counter of songs
  album_songs,     \* set of [rowid, album_id, song_id, track_number]
  nextLinkRow,     \* rowid counter of album_songs
  artists,         \* set of [human_id, stage_name]
  creq,            \* per request slot: the catalog handler running in it
  nCat             \* number of catalog requests started

catalogVars == <<products, nextProductId, songs, nextSongId, album_songs,
                 nextLinkRow, artists, creq, nCat>>

\* ----- helpers ---------------------------------------------------------------

\* Math.round(n / d) for d > 0: round half up.
RoundDiv(n, d) == (2 * n + d) \div (2 * d)

RECURSIVE RowsById(_)
\* the rows of a result set as a sequence, in rowid order
RowsById(S) ==
  IF S = {} THEN << >>
  ELSE LET m == CHOOSE x \in S : \A y \in S : x.id <= y.id
       IN <<m>> \o RowsById(S \ {m})

IdleReq == [op |-> "idle", pc |-> "idle", status |-> 0, humanId |-> NULL,
            productId |-> NULL, songId |-> NULL, existing |-> NULL,
            couponCode |-> NULL, cartItems |-> << >>, subtotal |-> 0,
            discountAmount |-> 0, couponId |-> NULL, taxAmount |-> 0,
            totalAmount |-> 0, orderId |-> NULL, idx |-> 0,
            itemId |-> NULL, error |-> "",
            cart0 |-> {}, coupons0 |-> {}]

Free(r) == req[r].pc \in {"idle", "done"}

CartOf(h) == {ci \in cart_items : ci.human_id = h}

\* ----- cart: addToCart (one step per awaited statement) ---------------------

\* a lookup that compares with = instead of IS: NULL never equals NULL, so a
\* product row (song_id NULL) is never found
ExistingCartRow_NoNullMatch(h, productId, songId) ==
  LET S == {ci \in cart_items : /\ ci.human_id = h
                                /\ ci.product_id = productId
                                /\ ci.song_id = songId
                                /\ productId # NULL
                                /\ songId # NULL}
  IN IF S = {} THEN NULL
     ELSE (CHOOSE x \in S : \A y \in S : x.id <= y.id).id

\* SELECT * FROM cart_items WHERE human_id = ? AND product_id IS ? AND song_id IS ?
\* (IS matches NULL with NULL); db.get returns the first row or nothing.
ExistingCartRow(h, productId, songId) ==
  LET S == {ci \in cart_items : /\ ci.human_id = h
                                /\ ci.product_id = productId
                                /\ ci.song_id = songId}
  IN IF S = {} THEN NULL
     ELSE (CHOOSE x \in S : \A y \in S : x.id <= y.id).id

\* Table constraints of cart_items: CHECK (product_id IS NOT NULL OR song_id
\* IS NOT NULL) and UNIQUE (human_id, product_id, song_id).  In SQLite two
\* rows that hold a NULL in a UNIQUE column never collide.
CartInsertAllowed(h, productId, songId) ==
  /\ (productId # NULL \/ songId # NULL)
  /\ ~ \E ci \in cart_items : /\ ci.human_id = h
                              /\ ci.product_id = productId
                              /\ ci.song_id = songId
                              /\ productId # NULL
                              /\ songId # NULL

\* lines 7-29: parse the body, reject "neither", look the row up
AddToCartBegin(r, h, productId, songId) ==
  /\ cartHandler = "productOrSong"
  /\ Free(r)
  /\ nAdds < MaxAdds
  /\ nAdds' = nAdds + 1
  /\ IF productId = NULL /\ songId = NULL
        THEN req' = [req EXCEPT ![r] =
                       [IdleReq EXCEPT !.op = "addToCart", !.pc = "done",
                                       !.status = 400, !.humanId = h]]
        ELSE req' = [req EXCEPT ![r] =
                       [IdleReq EXCEPT !.op = "addToCart", !.pc = "write",
                                       !.humanId = h,
                                       !.productId = productId,
                                       !.songId = songId,
                                       !.existing =
                                          ExistingCartRow(h, productId, songId)]]
  /\ UNCHANGED <<cart_items, nextCartId, coupons, orders, nextOrderId,
                 order_items, order_coupons, nCheckout, added, nDel>>
  /\ UNCHANGED <<identityVars, migrateVars, catalogVars, cartHandler>>

\* lines 31-40: UPDATE quantity = quantity + 1 WHERE id = ?  or  INSERT ... 1
AddToCartWrite(r) ==
  /\ req[r].op = "addToCart" /\ req[r].pc = "write"
  /\ IF req[r].existing # NULL
        THEN /\ cart_items' =
                  {IF ci.id = req[r].existing
                     THEN [ci EXCEPT !.quantity = ci.quantity + 1] ELSE ci
                   : ci \in cart_items}
             /\ nextCartId' = nextCartId
             /\ req' = [req EXCEPT ![r].pc = "done", ![r].status = 200]
        ELSE IF CartInsertAllowed(req[r].humanId, req[r].productId, req[r].songId)
        THEN /\ cart_items' = cart_items \cup
                  {[id |-> nextCartId, human_id |-> req[r].humanId,
                    product_id |-> req[r].productId, song_id |-> req[r].songId,
                    quantity |-> 1]}
             /\ nextCartId' = nextCartId + 1
             /\ req' = [req EXCEPT ![r].pc = "done", ![r].status = 200]
        ELSE \* constraint violation: db.run throws, the handler has no catch
             /\ UNCHANGED <<cart_items, nextCartId>>
             /\ req' = [req EXCEPT ![r].pc = "done", ![r].status = -1]
  /\ added' = IF req'[r].status = 200
                THEN [added EXCEPT
                        ![<<req[r].humanId, req[r].productId, req[r].songId>>] = @ + 1]
                ELSE added
  /\ UNCHANGED <<coupons, orders, nextOrderId, order_items, order_coupons,
                 nAdds, nCheckout, nDel>>
  /\ UNCHANGED <<identityVars, migrateVars, catalogVars, cartHandler>>

\* cartController.js line 14: SELECT * FROM cart_items WHERE human_id = ? AND
\* product_id = ?
LegacyExistingCartRow(h, productId) ==
  LET S == {ci \in cart_items : ci.human_id = h /\ ci.product_id = productId}
  IN IF S = {} THEN NULL
     ELSE (CHOOSE x \in S : \A y \in S : x.id <= y.id).id

\* cartController.js lines 3-14: parseInt of a missing productId is NaN (400)
LegacyAddToCartBegin(r, h, productId) ==
  /\ cartHandler = "productOnly"
  /\ Free(r)
  /\ nAdds < MaxAdds
  /\ nAdds' = nAdds + 1
  /\ IF productId = NULL
        THEN req' = [req EXCEPT ![r] =
                       [IdleReq EXCEPT !.op = "addToCartLegacy", !.pc = "done",
                                       !.status = 400, !.humanId = h]]
        ELSE req' = [req EXCEPT ![r] =
                       [IdleReq EXCEPT !.op = "addToCartLegacy",
                                       !.pc = "write", !.humanId = h,
                                       !.productId = productId,
                                       !.existing =
                                          LegacyExistingCartRow(h, productId)]]
  /\ UNCHANGED <<cart_items, nextCartId, coupons, orders, nextOrderId,
                 order_items, order_coupons, nCheckout, added, nDel>>
  /\ UNCHANGED <<identityVars, migrateVars, catalogVars, cartHandler>>

\* cartController.js lines 16-22: UPDATE quantity + 1 or INSERT quantity 1
LegacyAddToCartWrite(r) ==
  /\ req[r].op = "addToCartLegacy" /\ req[r].pc = "write"
  /\ IF req[r].existing # NULL
        THEN /\ cart_items' =
                  {IF ci.id = req[r].existing
                     THEN [ci EXCEPT !.quantity = ci.quantity + 1] ELSE ci
                   : ci \in cart_items}
             /\ nextCartId' = nextCartId
        ELSE /\ cart_items' = cart_items \cup
                  {[id |-> nextCartId, human_id |-> req[r].humanId,
                    product_id |-> req[r].productId, song_id |-> NULL,
                    quantity |-> 1]}
             /\ nextCartId' = nextCartId + 1
  /\ req' = [req EXCEPT ![r].pc = "done", ![r].status = 200]
  /\ added' = [added EXCEPT
                 ![<<req[r].humanId, req[r].productId, NULL>>] = @ + 1]
  /\ UNCHANGED <<coupons, orders, nextOrderId, order_items, order_coupons,
                 nAdds, nCheckout, nDel>>
  /\ UNCHANGED <<identityVars, migrateVars, catalogVars, cartHandler>>

\* ----- cart: deleteItem --------------------------------------------------------

MaxDel == 2        \* remove-from-cart requests per behaviour

\* the (person, product, song) triples a cart row can carry
CartKeys == Humans \X (Products \cup {NULL}) \X (Songs \cup {NULL})

NaN == -1          \* parseInt of an :itemId that is not a number

\* a lookup by id alone, whoever owns the row
CartRowOf_AnyOwner(itemId, h) == {ci \in cart_items : ci.id = itemId}

\* line 98 and line 104: ... FROM cart_items WHERE id = ? AND human_id = ?
CartRowOf(itemId, h) ==
  {ci \in cart_items : ci.id = itemId /\ ci.human_id = h}

\* lines 87-102: parse :itemId (400 when NaN), look the row up with the
\* session's person (400 'Item not found' without a row)
DeleteItemBegin(r, h, itemId) ==
  /\ Free(r)
  /\ nDel < MaxDel
  /\ nDel' = nDel + 1
  /\ LET base == [IdleReq EXCEPT !.op = "deleteItem", !.humanId = h,
                                 !.itemId = itemId]
     IN req' = [req EXCEPT ![r] =
          IF itemId = NaN
            THEN [base EXCEPT !.pc = "done", !.status = 400,
                              !.error = "Invalid item ID"]
          ELSE IF CartRowOf(itemId, h) = {}
            THEN [base EXCEPT !.pc = "done", !.status = 400,
                              !.error = "Item not found"]
            ELSE [base EXCEPT !.pc = "delete"]]
  /\ UNCHANGED <<cart_items, nextCartId, coupons, orders, nextOrderId,
                 order_items, order_coupons, nAdds, nCheckout, added>>
  /\ UNCHANGED <<identityVars, migrateVars, catalogVars, cartHandler>>

\* lines 104-106: DELETE FROM cart_items WHERE id = ? AND human_id = ?; 204
DeleteItemRun(r) ==
  /\ req[r].op = "deleteItem" /\ req[r].pc = "delete"
  /\ LET gone == CartRowOf(req[r].itemId, req[r].humanId)
     IN /\ cart_items' = cart_items \ gone
        /\ added' = [k \in CartKeys |->
                       IF \E ci \in gone :
                            <<ci.human_id, ci.product_id, ci.song_id>> = k
                         THEN 0 ELSE added[k]]
  /\ req' = [req EXCEPT ![r].pc = "done", ![r].status = 204]
  /\ UNCHANGED <<nextCartId, coupons, orders, nextOrderId, order_items,
                 order_coupons, nAdds, nCheckout, nDel>>
  /\ UNCHANGED <<identityVars, migrateVars, catalogVars, cartHandler>>

\* ----- checkout: validateCoupon and createOrder ------------------------------

Now == 5     \* datetime('now'); timestamps are small integers

\* The coupons the shop may have been seeded with (coupons has no CHECK on
\* discount_value): one row, code 1, whose parameters cover the cases.
CouponRow(type, value, minp, maxd, maxu, used, active, from, until) ==
  [id |-> 1, code |-> 1, discount_type |-> type, discount_value |-> value,
   min_purchase_amount |-> minp, max_discount_amount |-> maxd,
   max_uses |-> maxu, times_used |-> used, is_active |-> active,
   valid_from |-> from, valid_until |-> until]

CouponCatalog ==
  { CouponRow("percentage",   20,    0,  1000, NULL, 0, 1, NULL, NULL),
    CouponRow("percentage",   20,    0,  NULL, 1,    0, 1, 1,    NULL),
    CouponRow("percentage",   150,   0,  NULL, NULL, 0, 1, NULL, NULL),
    CouponRow("percentage",   100,   0,  NULL, NULL, 0, 1, NULL, 9),
    CouponRow("fixed_amount", 5000,  0,  NULL, NULL, 0, 1, NULL, NULL),
    CouponRow("fixed_amount", 500,   2000, NULL, 2,  1, 1, NULL, NULL),
    CouponRow("fixed_amount", 500,   0,  NULL, 1,    1, 1, NULL, NULL),
    CouponRow("fixed_amount", 500,   0,  NULL, NULL, 0, 0, NULL, NULL),
    CouponRow("percentage",   10,    0,  NULL, NULL, 0, 1, NULL, 3),
    CouponRow("percentage",   10,    0,  NULL, NULL, 0, 1, 7,    NULL),
    CouponRow("fixed_amount", 500,   5000, NULL, NULL, 0, 1, NULL, NULL) }

CouponCodes == {1, 2}      \* code 2 is a code no coupon row has

\* a minimum that always takes its first argument
Min_First(a, b) == a

Min(a, b) == IF a <= b THEN a ELSE b

\* lines 17-24: the active coupon with this code whose window contains now
FindCoupon(code) ==
  {c \in coupons : /\ c.code = code
                   /\ c.is_active = 1
                   /\ (c.valid_from = NULL \/ c.valid_from <= Now)
                   /\ (c.valid_until = NULL \/ c.valid_until >= Now)}

\* a discount that ignores max_discount_amount
CouponDiscount_NoCap(c, subtotal) ==
  IF c.discount_type = "percentage"
    THEN RoundDiv(subtotal * c.discount_value, 100)
    ELSE IF c.discount_type = "fixed_amount"
           THEN Min(c.discount_value, subtotal)
           ELSE 0

\* lines 43-54 and 59: the discount in cents, rounded to the cent
CouponDiscount(c, subtotal) ==
  IF c.discount_type = "percentage"
    THEN IF c.max_discount_amount # NULL
            /\ subtotal * c.discount_value > 100 * c.max_discount_amount
           THEN c.max_discount_amount
           ELSE RoundDiv(subtotal * c.discount_value, 100)
    ELSE IF c.discount_type = "fixed_amount"
           THEN Min(c.discount_value, subtotal)
           ELSE 0

\* a validation that never rejects: an unknown code counts as no coupon and a
\* found coupon is applied whatever its minimum purchase and usage cap
validateCoupon_NeverRejects(code, subtotal) ==
  LET found == FindCoupon(code) IN
  IF found = {}
    THEN [valid |-> TRUE, error |-> "", couponId |-> NULL, discountAmount |-> 0]
    ELSE LET c == CHOOSE x \in found : TRUE
         IN [valid |-> TRUE, error |-> "", couponId |-> c.id,
             discountAmount |-> CouponDiscount(c, subtotal)]

\* lines 16-61: validateCoupon(db, couponCode, subtotal, humanId)
validateCoupon(code, subtotal) ==
  LET found == FindCoupon(code) IN
  IF found = {}
    THEN [valid |-> FALSE, error |-> "Invalid or expired coupon code",
          couponId |-> NULL, discountAmount |-> 0]
  ELSE LET c == CHOOSE x \in found : TRUE IN
    IF c.min_purchase_amount # NULL /\ subtotal < c.min_purchase_amount
      THEN [valid |-> FALSE, error |-> "Minimum purchase required",
            couponId |-> NULL, discountAmount |-> 0]
    ELSE IF c.max_uses # NULL /\ c.times_used >= c.max_uses
      THEN [valid |-> FALSE, error |-> "Coupon usage limit reached",
            couponId |-> NULL, discountAmount |-> 0]
    ELSE [valid |-> TRUE, error |-> "",
          couponId |-> c.id, discountAmount |-> CouponDiscount(c, subtotal)]

\* lines 168-169: taxAmount = round((subtotal - discount) * 0.08 * 100) / 100
TaxAmount(subtotal, discountAmount) ==
  RoundDiv((subtotal - discountAmount) * 8, 100)

\* line 170: totalAmount = round((subtotal - discount + tax) * 100) / 100
TotalAmount(subtotal, discountAmount) ==
  subtotal - discountAmount + TaxAmount(subtotal, discountAmount)

\* lines 138-144: cart rows of the person joined with products (an inner join:
\* rows whose product_id is NULL have no partner and drop out)
CartItemsOf(h) ==
  LET rows == RowsById({ci \in CartOf(h) : ci.product_id \in Products})
  IN [i \in 1..Len(rows) |->
        [product_id |-> rows[i].product_id, quantity |-> rows[i].quantity,
         price |-> Price(rows[i].product_id)]]

RECURSIVE Subtotal(_)
\* line 151: cartItems.reduce((sum, item) => sum + item.price * item.quantity, 0)
Subtotal(items) ==
  IF Len(items) = 0 THEN 0
  ELSE Subtotal(SubSeq(items, 1, Len(items) - 1))
       + items[Len(items)].price * items[Len(items)].quantity

RECURSIVE LineTotalSum(_)
\* SUM(line_total) over a set of order_items rows
LineTotalSum(S) ==
  IF S = {} THEN 0
  ELSE LET x == CHOOSE y \in S : TRUE IN x.line_total + LineTotalSum(S \ {x})

\* lines 66-89 and 107-118: previewOrder reads the cart, rejects an empty one,
\* computes the subtotal; without a coupon code it answers at once
PreviewOrderBegin(r, h, code) ==
  /\ Free(r)
  /\ nCheckout < MaxCheckout
  /\ nCheckout' = nCheckout + 1
  /\ LET items == CartItemsOf(h)
         base  == [IdleReq EXCEPT !.op = "previewOrder", !.humanId = h,
                                  !.couponCode = code, !.cartItems = items,
                                  !.cart0 = CartOf(h), !.coupons0 = coupons]
     IN IF Len(items) = 0
          THEN req' = [req EXCEPT ![r] =
                         [base EXCEPT !.pc = "done", !.status = 400,
                                      !.error = "Cart is empty"]]
          ELSE req' = [req EXCEPT ![r] =
                         [base EXCEPT
                            !.subtotal = Subtotal(items),
                            !.taxAmount = TaxAmount(Subtotal(items), 0),
                            !.totalAmount = TotalAmount(Subtotal(items), 0),
                            !.pc = IF code # NULL THEN "previewValidate"
                                                  ELSE "done",
                            !.status = IF code # NULL THEN 0 ELSE 200]]
  /\ UNCHANGED <<cart_items, nextCartId, coupons, orders, nextOrderId,
                 order_items, order_coupons, nAdds, added, nDel>>
  /\ UNCHANGED <<identityVars, migrateVars, catalogVars, cartHandler>>

\* lines 91-118: validate the coupon, then tax and total, and answer
PreviewOrderValidate(r) ==
  /\ req[r].op = "previewOrder" /\ req[r].pc = "previewValidate"
  /\ LET v == validateCoupon(req[r].couponCode, req[r].subtotal)
     IN IF ~ v.valid
          THEN req' = [req EXCEPT ![r].pc = "done", ![r].status = 400,
                                  ![r].error = v.error]
          ELSE req' = [req EXCEPT
                 ![r].discountAmount = v.discountAmount,
                 ![r].couponId = v.couponId,
                 ![r].taxAmount = TaxAmount(req[r].subtotal, v.discountAmount),
                 ![r].totalAmount = TotalAmount(req[r].subtotal, v.discountAmount),
                 ![r].pc = "done", ![r].status = 200]
  /\ UNCHANGED <<cart_items, nextCartId, coupons, orders, nextOrderId,
                 order_items, order_coupons, nAdds, nCheckout, added, nDel>>
  /\ UNCHANGED <<identityVars, migrateVars, catalogVars, cartHandler>>

\* a commit that goes on with whatever the cart query returned
CreateOrderBegin_NoEmptyCheck(r, h, code) ==
  /\ Free(r)
  /\ nCheckout < MaxCheckout
  /\ nCheckout' = nCheckout + 1
  /\ LET items == CartItemsOf(h)
     IN req' = [req EXCEPT ![r] =
          [IdleReq EXCEPT !.op = "createOrder", !.humanId = h,
                          !.couponCode = code, !.cartItems = items,
                          !.cart0 = CartOf(h), !.coupons0 = coupons,
                          !.subtotal = Subtotal(items),
                          !.taxAmount = TaxAmount(Subtotal(items), 0),
                          !.totalAmount = TotalAmount(Subtotal(items), 0),
                          !.pc = IF code # NULL THEN "validate"
                                                ELSE "insertOrder"]]
  /\ UNCHANGED <<cart_items, nextCartId, coupons, orders, nextOrderId,
                 order_items, order_coupons, nAdds, added, nDel>>
  /\ UNCHANGED <<identityVars, migrateVars, catalogVars, cartHandler>>

\* lines 134-151: read the cart, reject an empty one, compute the subtotal
CreateOrderBegin(r, h, code) ==
  /\ Free(r)
  /\ nCheckout < MaxCheckout
  /\ nCheckout' = nCheckout + 1
  /\ LET items == CartItemsOf(h)
         base  == [IdleReq EXCEPT !.op = "createOrder", !.humanId = h,
                                  !.couponCode = code, !.cartItems = items,
                                  !.cart0 = CartOf(h), !.coupons0 = coupons]
     IN IF Len(items) = 0
          THEN req' = [req EXCEPT ![r] =
                         [base EXCEPT !.pc = "done", !.status = 400,
                                      !.error = "Cart is empty"]]
          ELSE req' = [req EXCEPT ![r] =
                         [base EXCEPT
                            !.subtotal = Subtotal(items),
                            !.taxAmount = TaxAmount(Subtotal(items), 0),
                            !.totalAmount = TotalAmount(Subtotal(items), 0),
                            !.pc = IF code # NULL THEN "validate"
                                                  ELSE "insertOrder"]]
  /\ UNCHANGED <<cart_items, nextCartId, coupons, orders, nextOrderId,
                 order_items, order_coupons, nAdds, added, nDel>>
  /\ UNCHANGED <<identityVars, migrateVars, catalogVars, cartHandler>>

\* lines 156-170: validate the coupon, then tax and total
CreateOrderValidate(r) ==
  /\ req[r].op = "createOrder" /\ req[r].pc = "validate"
  /\ LET v == validateCoupon(req[r].couponCode, req[r].subtotal)
     IN IF ~ v.valid
          THEN req' = [req EXCEPT ![r].pc = "done", ![r].status = 400,
                                  ![r].error = v.error]
          ELSE req' = [req EXCEPT
                 ![r].discountAmount = v.discountAmount,
                 ![r].couponId = v.couponId,
                 ![r].taxAmount = TaxAmount(req[r].subtotal, v.discountAmount),
                 ![r].totalAmount = TotalAmount(req[r].subtotal, v.discountAmount),
                 ![r].pc = "insertOrder"]
  /\ UNCHANGED <<cart_items, nextCartId, coupons, orders, nextOrderId,
                 order_items, order_coupons, nAdds, nCheckout, added, nDel>>
  /\ UNCHANGED <<identityVars, migrateVars, catalogVars, cartHandler>>

\* lines 175-182: INSERT INTO orders; orderId = lastID
CreateOrderInsertOrder(r) ==
  /\ req[r].op = "createOrder" /\ req[r].pc = "insertOrder"
  /\ orders' = orders \cup
        {[id |-> nextOrderId, human_id |-> req[r].humanId,
          subtotal |-> req[r].subtotal,
          discount_amount |-> req[r].discountAmount,
          tax_amount |-> req[r].taxAmount,
          total_amount |-> req[r].totalAmount]}
  /\ nextOrderId' = nextOrderId + 1
  /\ req' = [req EXCEPT ![r].orderId = nextOrderId, ![r].idx = 1,
                        ![r].pc = "insertItem"]
  /\ UNCHANGED <<cart_items, nextCartId, coupons, order_items, order_coupons,
                 nAdds, nCheckout, added, nDel>>
  /\ UNCHANGED <<identityVars, migrateVars, catalogVars, cartHandler>>

\* where the handler goes once the loop over cartItems is over (lines 194-210)
AfterItems(r) == IF req[r].couponId # NULL THEN "insertCoupon" ELSE "clearCart"

\* lines 185-192: one INSERT INTO order_items per iteration of the loop
CreateOrderInsertItem(r) ==
  /\ req[r].op = "createOrder" /\ req[r].pc = "insertItem"
  /\ LET item == req[r].cartItems[req[r].idx]
     IN order_items' = order_items \cup
          {[order_id |-> req[r].orderId, seq |-> req[r].idx,
            product_id |-> item.product_id, quantity |-> item.quantity,
            unit_price |-> item.price,
            line_total |-> item.price * item.quantity]}
  /\ req' = [req EXCEPT ![r].idx = req[r].idx + 1,
                        ![r].pc = IF req[r].idx = Len(req[r].cartItems)
                                    THEN AfterItems(r) ELSE "insertItem"]
  /\ UNCHANGED <<cart_items, nextCartId, coupons, orders, nextOrderId,
                 order_coupons, nAdds, nCheckout, added, nDel>>
  /\ UNCHANGED <<identityVars, migrateVars, catalogVars, cartHandler>>

\* lines 196-200: INSERT INTO order_coupons
CreateOrderInsertCoupon(r) ==
  /\ req[r].op = "createOrder" /\ req[r].pc = "insertCoupon"
  /\ order_coupons' = order_coupons \cup
        {[order_id |-> req[r].orderId, coupon_id |-> req[r].couponId,
          discount_applied |-> req[r].discountAmount]}
  /\ req' = [req EXCEPT ![r].pc = "incrementCoupon"]
  /\ UNCHANGED <<cart_items, nextCartId, coupons, orders, nextOrderId,
                 order_items, nAdds, nCheckout, added, nDel>>
  /\ UNCHANGED <<identityVars, migrateVars, catalogVars, cartHandler>>

\* lines 203-206: UPDATE coupons SET times_used = times_used + 1 WHERE id = ?
CreateOrderIncrementCoupon(r) ==
  /\ req[r].op = "createOrder" /\ req[r].pc = "incrementCoupon"
  /\ coupons' = {IF c.id = req[r].couponId
                   THEN [c EXCEPT !.times_used = c.times_used + 1] ELSE c
                 : c \in coupons}
  /\ req' = [req EXCEPT ![r].pc = "clearCart"]
  /\ UNCHANGED <<cart_items, nextCartId, orders, nextOrderId, order_items,
                 order_coupons, nAdds, nCheckout, added, nDel>>
  /\ UNCHANGED <<identityVars, migrateVars, catalogVars, cartHandler>>

\* a clear that deletes only the rows the cart query returned (the product
\* rows) and leaves the person's song rows behind
CartAfterClear_ProductRowsOnly(h) ==
  {ci \in cart_items : ci.human_id # h \/ ci.product_id = NULL}

\* line 210: DELETE FROM cart_items WHERE human_id = ?
CartAfterClear(h) == {ci \in cart_items : ci.human_id # h}

\* lines 209-217: clear the cart and answer 201
CreateOrderClearCart(r) ==
  /\ req[r].op = "createOrder" /\ req[r].pc = "clearCart"
  /\ cart_items' = CartAfterClear(req[r].humanId)
  /\ req' = [req EXCEPT ![r].pc = "done", ![r].status = 201]
  /\ UNCHANGED <<nextCartId, coupons, orders, nextOrderId, order_items,
                 order_coupons, nAdds, nCheckout, added, nDel>>
  /\ UNCHANGED <<identityVars, migrateVars, catalogVars, cartHandler>>

\* lines 219-224: the statement the handler is about to run throws (constraint
\* violation, SQLITE_BUSY, I/O error); catch answers 500, finally closes the
\* connection.  Nothing is undone: the earlier statements were auto-committed.
CreateOrderDbError(r) ==
  /\ req[r].op = "createOrder"
  /\ req[r].pc \in {"validate", "insertOrder", "insertItem", "insertCoupon",
                    "incrementCoupon", "clearCart"}
  /\ req' = [req EXCEPT ![r].pc = "done", ![r].status = 500]
  /\ UNCHANGED <<cart_items, nextCartId, coupons, orders, nextOrderId,
                 order_items, order_coupons, nAdds, nCheckout, added, nDel>>
  /\ UNCHANGED <<identityVars, migrateVars, catalogVars, cartHandler>>

\* ----- the shop's specifications --------------------------------------------

\* Carts the add handler can have built (each row: one add that inserted it
\* and quantity - 1 adds that incremented it), with the id counter they leave.
CartRow(id, h, p, s, q) ==
  [id |-> id, human_id |-> h, product_id |-> p, song_id |-> s, quantity |-> q]

CartCatalog ==
  { {},
    {CartRow(1, 1, 1, NULL, 1)},
    {CartRow(1, 1, 1, NULL, 2), CartRow(2, 2, 2, NULL, 1), CartRow(3, 1, 2, NULL, 1)},
    {CartRow(1, 1, 1, NULL, 1), CartRow(2, 1, NULL, 1, 1), CartRow(3, 2, NULL, 1, 1)} }

TablesInit ==
  /\ orders = {}
  /\ nextOrderId = 1
  /\ order_items = {}
  /\ order_coupons = {}
  /\ req = [r \in Requests |-> IdleReq]
  /\ nAdds = 0
  /\ nCheckout = 0
  /\ nDel = 0

\* the cart handlers start from an empty cart table
CartInit ==
  /\ cart_items = {}
  /\ nextCartId = 1
  /\ coupons = {}
  /\ cartHandler \in {"productOnly", "productOrSong"}
  /\ added = [k \in CartKeys |-> 0]
  /\ TablesInit

\* checkout starts from a cart the cart handlers have built and a seeded coupon
CheckoutInit ==
  /\ \E cart \in CartCatalog :
        /\ cart_items = cart
        /\ nextCartId = Cardinality(cart) + 1
        /\ added = [k \in CartKeys |->
                      IF \E ci \in cart : <<ci.human_id, ci.product_id, ci.song_id>> = k
                        THEN (CHOOSE ci \in cart :
                                <<ci.human_id, ci.product_id, ci.song_id>> = k).quantity
                        ELSE 0]
  /\ \E c \in CouponCatalog : coupons = {c}
  /\ cartHandler = "productOrSong"
  /\ TablesInit

\* the remove handler starts from a cart the add handler has built
RemoveInit ==
  /\ \E cart \in CartCatalog :
        /\ cart_items = cart
        /\ nextCartId = Cardinality(cart) + 1
        /\ added = [k \in CartKeys |->
                      IF \E ci \in cart : <<ci.human_id, ci.product_id, ci.song_id>> = k
                        THEN (CHOOSE ci \in cart :
                                <<ci.human_id, ci.product_id, ci.song_id>> = k).quantity
                        ELSE 0]
  /\ coupons = {}
  /\ cartHandler = "productOrSong"
  /\ TablesInit

CartStep(r) ==
  \/ \E h \in Humans, p \in Products \cup {NULL}, s \in Songs \cup {NULL} :
        AddToCartBegin(r, h, p, s)
  \/ AddToCartWrite(r)
  \/ \E h \in Humans, p \in Products \cup {NULL} : LegacyAddToCartBegin(r, h, p)
  \/ LegacyAddToCartWrite(r)

RemoveStep(r) ==
  \/ \E h \in Humans, itemId \in (1..MaxAdds) \cup {NaN} :
        DeleteItemBegin(r, h, itemId)
  \/ DeleteItemRun(r)

CheckoutStep(r) ==
  \/ \E h \in Humans, code \in CouponCodes \cup {NULL} :
        CreateOrderBegin(r, h, code)
  \/ CreateOrderValidate(r)
  \/ CreateOrderInsertOrder(r)
  \/ CreateOrderInsertItem(r)
  \/ CreateOrderInsertCoupon(r)
  \/ CreateOrderIncrementCoupon(r)
  \/ CreateOrderClearCart(r)
  \/ CreateOrderDbError(r)
  \/ \E h \in Humans, code \in CouponCodes \cup {NULL} :
        PreviewOrderBegin(r, h, code)
  \/ PreviewOrderValidate(r)

\* ----- registration and email update ----------------------------------------

MaxReg == 2        \* registration requests per behaviour
MaxUpd == 2        \* email-update requests per behaviour

Emails    == {1, 2}      \* trimmed, well-formed email strings
Usernames == {1, 2}      \* trimmed, well-formed usernames

CustomerRoleId == 2      \* site_roles.id of 'customer', the second seeded role

IdleAReq == [op |-> "idle", pc |-> "idle", status |-> 0, humanId |-> NULL,
             email |-> NULL, username |-> NULL, existingEmail |-> FALSE,
             error |-> "none", holder |-> NULL]

AFree(r) == areq[r].pc \in {"idle", "done"}

ActiveEmails == {e \in email_history : e.effective_to = NULL}

\* CREATE UNIQUE INDEX idx_email_unique_active ON email_history(email)
\*   WHERE effective_to IS NULL
EmailInsertAllowed(email) == ~ \E e \in ActiveEmails : e.email = email

\* the person whose active row holds the email (NULL if nobody's does)
EmailHolder(email) ==
  IF \E e \in ActiveEmails : e.email = email
    THEN (CHOOSE e \in ActiveEmails : e.email = email).human_id
    ELSE NULL

\* customers.username TEXT NOT NULL UNIQUE
UsernameInsertAllowed(username) == ~ \E c \in customers : c.username = username

\* part_003 lines 39: SELECT human_id FROM email_history WHERE email = ? AND
\* effective_to IS NULL
RegisterBegin(r, email, username) ==
  /\ AFree(r)
  /\ nReg < MaxReg
  /\ nReg' = nReg + 1
  /\ areq' = [areq EXCEPT ![r] =
        [IdleAReq EXCEPT !.op = "registerUser", !.pc = "checkUsername",
                         !.email = email, !.username = username,
                         !.existingEmail =
                            (\E e \in ActiveEmails : e.email = email),
                         !.holder = EmailHolder(email)]]
  /\ UNCHANGED <<humans, nextHumanId, customers, email_history, nextEmailId,
                 human_site_roles, nUpd>>
  /\ UNCHANGED <<shopVars, migrateVars, catalogVars, rbacVars>>

\* lines 40-44: SELECT human_id FROM customers WHERE username = ?; 400 if
\* either lookup found a row
RegisterCheckUsername(r) ==
  /\ areq[r].op = "registerUser" /\ areq[r].pc = "checkUsername"
  /\ IF areq[r].existingEmail
        \/ \E c \in customers : c.username = areq[r].username
       THEN areq' = [areq EXCEPT ![r].pc = "done", ![r].status = 400]
       ELSE areq' = [areq EXCEPT ![r].pc = "insertHuman"]
  /\ UNCHANGED <<humans, nextHumanId, customers, email_history, nextEmailId,
                 human_site_roles, nReg, nUpd>>
  /\ UNCHANGED <<shopVars, migrateVars, catalogVars, rbacVars>>

\* lines 49-53: INSERT INTO humans; humanId = lastID
RegisterInsertHuman(r) ==
  /\ areq[r].op = "registerUser" /\ areq[r].pc = "insertHuman"
  /\ humans' = humans \cup {nextHumanId}
  /\ nextHumanId' = nextHumanId + 1
  /\ areq' = [areq EXCEPT ![r].humanId = nextHumanId,
                          ![r].pc = "insertCustomer"]
  /\ UNCHANGED <<customers, email_history, nextEmailId, human_site_roles,
                 nReg, nUpd>>
  /\ UNCHANGED <<shopVars, migrateVars, catalogVars, rbacVars>>

\* lines 81-85: the catch of registerUser logs err.message and answers 500;
\* nothing is undone
RegisterFailed(r, message) ==
  [areq EXCEPT ![r].pc = "done", ![r].status = 500, ![r].error = message,
               ![r].holder = IF message = "UNIQUE email_history.email"
                               THEN EmailHolder(areq[r].email) ELSE @]

\* lines 56-59: INSERT INTO customers
RegisterInsertCustomer(r) ==
  /\ areq[r].op = "registerUser" /\ areq[r].pc = "insertCustomer"
  /\ IF UsernameInsertAllowed(areq[r].username)
       THEN /\ customers' = customers \cup
                 {[human_id |-> areq[r].humanId, username |-> areq[r].username]}
            /\ areq' = [areq EXCEPT ![r].pc = "insertEmail"]
       ELSE /\ customers' = customers
            /\ areq' = RegisterFailed(r, "UNIQUE customers.username")
  /\ UNCHANGED <<humans, nextHumanId, email_history, nextEmailId,
                 human_site_roles, nReg, nUpd>>
  /\ UNCHANGED <<shopVars, migrateVars, catalogVars, rbacVars>>

\* lines 62-66: INSERT INTO email_history (..., NULL, 'initial')
RegisterInsertEmail(r) ==
  /\ areq[r].op = "registerUser" /\ areq[r].pc = "insertEmail"
  /\ IF EmailInsertAllowed(areq[r].email)
       THEN /\ email_history' = email_history \cup
                 {[id |-> nextEmailId, human_id |-> areq[r].humanId,
                   email |-> areq[r].email, effective_to |-> NULL,
                   change_reason |-> "initial"]}
            /\ nextEmailId' = nextEmailId + 1
            /\ areq' = [areq EXCEPT ![r].pc = "assignRole"]
       ELSE /\ UNCHANGED <<email_history, nextEmailId>>
            /\ areq' = RegisterFailed(r, "UNIQUE email_history.email")
  /\ UNCHANGED <<humans, nextHumanId, customers, human_site_roles, nReg, nUpd>>
  /\ UNCHANGED <<shopVars, migrateVars, catalogVars, rbacVars>>

\* lines 69-77: look the customer role up, INSERT INTO human_site_roles, 201
RegisterAssignRole(r) ==
  /\ areq[r].op = "registerUser" /\ areq[r].pc = "assignRole"
  /\ human_site_roles' = human_site_roles \cup
        {[human_id |-> areq[r].humanId, site_role_id |-> CustomerRoleId,
          expires_at |-> NULL]}
  /\ areq' = [areq EXCEPT ![r].pc = "done", ![r].status = 201]
  /\ UNCHANGED <<humans, nextHumanId, customers, email_history, nextEmailId,
                 nReg, nUpd>>
  /\ UNCHANGED <<shopVars, migrateVars, catalogVars, rbacVars>>

\* part_002 lines 170-188: updateUserEmail: the user must exist
UpdateEmailBegin(r, h, email) ==
  /\ AFree(r)
  /\ nUpd < MaxUpd
  /\ nUpd' = nUpd + 1
  /\ LET base == [IdleAReq EXCEPT !.op = "updateUserEmail", !.humanId = h,
                                  !.email = email]
     IN IF h \notin humans
          THEN areq' = [areq EXCEPT ![r] =
                          [base EXCEPT !.pc = "done", !.status = 404]]
          ELSE areq' = [areq EXCEPT ![r] = [base EXCEPT !.pc = "checkEmail"]]
  /\ UNCHANGED <<humans, nextHumanId, customers, email_history, nextEmailId,
                 human_site_roles, nReg>>
  /\ UNCHANGED <<shopVars, migrateVars, catalogVars, rbacVars>>

\* lines 190-198: is the email active for another human?
UpdateEmailCheck(r) ==
  /\ areq[r].op = "updateUserEmail" /\ areq[r].pc = "checkEmail"
  /\ IF \E e \in ActiveEmails : e.email = areq[r].email
                                /\ e.human_id # areq[r].humanId
       THEN areq' = [areq EXCEPT ![r].pc = "done", ![r].status = 400,
                                 ![r].existingEmail = TRUE,
                                 ![r].holder = EmailHolder(areq[r].email)]
       ELSE areq' = [areq EXCEPT ![r].pc = "closeOld"]
  /\ UNCHANGED <<humans, nextHumanId, customers, email_history, nextEmailId,
                 human_site_roles, nReg, nUpd>>
  /\ UNCHANGED <<shopVars, migrateVars, catalogVars, rbacVars>>

\* lines 200-205: UPDATE email_history SET effective_to = CURRENT_TIMESTAMP
\*   WHERE human_id = ? AND effective_to IS NULL
UpdateEmailCloseOld(r) ==
  /\ areq[r].op = "updateUserEmail" /\ areq[r].pc = "closeOld"
  /\ email_history' =
        {IF e.human_id = areq[r].humanId /\ e.effective_to = NULL
           THEN [e EXCEPT !.effective_to = Now] ELSE e
         : e \in email_history}
  /\ areq' = [areq EXCEPT ![r].pc = "insertNew"]
  /\ UNCHANGED <<humans, nextHumanId, customers, nextEmailId,
                 human_site_roles, nReg, nUpd>>
  /\ UNCHANGED <<shopVars, migrateVars, catalogVars, rbacVars>>

\* lines 207-218: INSERT INTO email_history (..., NULL, 'admin_updated'); the
\* catch answers 500 when the unique index rejects the row
UpdateEmailInsertNew(r) ==
  /\ areq[r].op = "updateUserEmail" /\ areq[r].pc = "insertNew"
  /\ IF EmailInsertAllowed(areq[r].email)
       THEN /\ email_history' = email_history \cup
                 {[id |-> nextEmailId, human_id |-> areq[r].humanId,
                   email |-> areq[r].email, effective_to |-> NULL,
                   change_reason |-> "admin_updated"]}
            /\ nextEmailId' = nextEmailId + 1
            /\ areq' = [areq EXCEPT ![r].pc = "done", ![r].status = 200]
       ELSE /\ UNCHANGED <<email_history, nextEmailId>>
            /\ areq' = [areq EXCEPT ![r].pc = "done", ![r].status = 500,
                                    ![r].error = "UNIQUE email_history.email",
                                    ![r].holder = EmailHolder(areq[r].email)]
  /\ UNCHANGED <<humans, nextHumanId, customers, human_site_roles, nReg, nUpd>>
  /\ UNCHANGED <<shopVars, migrateVars, catalogVars, rbacVars>>

\* ----- roles and permissions (middleware/requireAuth.js, adminController) ----

MaxRbac  == 3      \* permission checks, role assignments and revocations
MaxClock == 3      \* latest value datetime('now') takes

Permissions == {1, 2}        \* permissions.id: 1 'users.manage', 2 'cart.manage'
SiteRoles   == {1, 2}        \* site_roles.id: 1 'admin', 2 'customer'
RoleNames   == {1, 2, 9}     \* roleName of a request body; 9 names no role

\* 001-create-new-schema.js lines 228-240: admin gets every permission,
\* customer gets (of the two modelled) 'cart.manage'
site_role_permissions ==
  { [site_role_id |-> 1, permission_id |-> 1],
    [site_role_id |-> 1, permission_id |-> 2],
    [site_role_id |-> 2, permission_id |-> 2] }

RoleRow(h, role, expires) ==
  [human_id |-> h, site_role_id |-> role, expires_at |-> expires]

\* Role assignments the table may hold when the handlers start; only direct
\* SQL writes expires_at, the handlers leave it NULL.
RoleCatalog ==
  { {},
    {RoleRow(1, 1, NULL)},
    {RoleRow(1, 1, 2), RoleRow(2, 2, NULL)},
    {RoleRow(1, 1, 1), RoleRow(1, 2, 3)} }

IdlePReq == [op |-> "idle", pc |-> "idle", status |-> 0, session |-> NULL,
             permission |-> NULL, humanId |-> NULL, roleName |-> NULL,
             roleId |-> NULL]

PFree(r) == preq[r].pc \in {"idle", "done"}

\* a permission query without the expires_at condition
HasPermission_IgnoreExpiry(h, p) ==
  \E hsr \in human_site_roles, srp \in site_role_permissions :
     /\ hsr.site_role_id = srp.site_role_id
     /\ srp.permission_id \in Permissions
     /\ hsr.human_id = h
     /\ srp.permission_id = p

\* requireAuth.js lines 52-60: SELECT 1 FROM human_site_roles hsr JOIN
\* site_role_permissions srp JOIN permissions p WHERE hsr.human_id = ? AND
\* p.permission_name = ? AND (hsr.expires_at IS NULL OR
\* hsr.expires_at > datetime('now'))
HasPermission(h, p) ==
  \E hsr \in human_site_roles, srp \in site_role_permissions :
     /\ hsr.site_role_id = srp.site_role_id
     /\ srp.permission_id \in Permissions
     /\ hsr.human_id = h
     /\ srp.permission_id = p
     /\ (hsr.expires_at = NULL \/ hsr.expires_at > clock)

\* lines 43-49: no session: 401; otherwise open the connection
RequirePermissionBegin(r, session, p) ==
  /\ PFree(r)
  /\ nRbac < MaxRbac
  /\ nRbac' = nRbac + 1
  /\ preq' = [preq EXCEPT ![r] =
        IF session = NULL
          THEN [IdlePReq EXCEPT !.op = "requirePermission", !.pc = "done",
                                !.status = 401, !.permission = p]
          ELSE [IdlePReq EXCEPT !.op = "requirePermission", !.pc = "check",
                                !.session = session, !.permission = p]]
  /\ UNCHANGED <<humans, nextHumanId, customers, email_history, nextEmailId,
                 human_site_roles, areq, nReg, nUpd, clock>>
  /\ UNCHANGED <<shopVars, migrateVars, catalogVars>>

\* lines 52-66: run the query; 403 without a row, next() with one (status 200
\* stands for the call of next())
RequirePermissionCheck(r) ==
  /\ preq[r].op = "requirePermission" /\ preq[r].pc = "check"
  /\ preq' = [preq EXCEPT
        ![r].pc = "done",
        ![r].status = IF HasPermission(preq[r].session, preq[r].permission)
                        THEN 200 ELSE 403]
  /\ UNCHANGED <<humans, nextHumanId, customers, email_history, nextEmailId,
                 human_site_roles, areq, nReg, nUpd, clock, nRbac>>
  /\ UNCHANGED <<shopVars, migrateVars, catalogVars>>

\* adminController lines 225-243: assignRole: the user must exist
AssignRoleBegin(r, h, roleName) ==
  /\ PFree(r)
  /\ nRbac < MaxRbac
  /\ nRbac' = nRbac + 1
  /\ preq' = [preq EXCEPT ![r] =
        IF h \notin humans
          THEN [IdlePReq EXCEPT !.op = "assignRole", !.pc = "done",
                                !.status = 404, !.humanId = h,
                                !.roleName = roleName]
          ELSE [IdlePReq EXCEPT !.op = "assignRole", !.pc = "findRole",
                                !.humanId = h, !.roleName = roleName]]
  /\ UNCHANGED <<humans, nextHumanId, customers, email_history, nextEmailId,
                 human_site_roles, areq, nReg, nUpd, clock>>
  /\ UNCHANGED <<shopVars, migrateVars, catalogVars>>

\* lines 245-249: SELECT id FROM site_roles WHERE role_name = ?
AssignRoleFindRole(r) ==
  /\ preq[r].op = "assignRole" /\ preq[r].pc = "findRole"
  /\ preq' = [preq EXCEPT ![r] =
        IF preq[r].roleName \notin SiteRoles
          THEN [preq[r] EXCEPT !.pc = "done", !.status = 400]
          ELSE [preq[r] EXCEPT !.pc = "checkExisting",
                               !.roleId = preq[r].roleName]]
  /\ UNCHANGED <<humans, nextHumanId, customers, email_history, nextEmailId,
                 human_site_roles, areq, nReg, nUpd, clock, nRbac>>
  /\ UNCHANGED <<shopVars, migrateVars, catalogVars>>

\* lines 251-259: does the user already have the role?
AssignRoleCheckExisting(r) ==
  /\ preq[r].op = "assignRole" /\ preq[r].pc = "checkExisting"
  /\ preq' = [preq EXCEPT ![r] =
        IF \E hsr \in human_site_roles : /\ hsr.human_id = preq[r].humanId
                                         /\ hsr.site_role_id = preq[r].roleId
          THEN [preq[r] EXCEPT !.pc = "done", !.status = 400]
          ELSE [preq[r] EXCEPT !.pc = "insert"]]
  /\ UNCHANGED <<humans, nextHumanId, customers, email_history, nextEmailId,
                 human_site_roles, areq, nReg, nUpd, clock, nRbac>>
  /\ UNCHANGED <<shopVars, migrateVars, catalogVars>>

\* lines 261-267: INSERT INTO human_site_roles (expires_at stays NULL); the
\* primary key (human_id, site_role_id) rejects a second row: catch, 500
AssignRoleInsert(r) ==
  /\ preq[r].op = "assignRole" /\ preq[r].pc = "insert"
  /\ IF \E hsr \in human_site_roles : /\ hsr.human_id = preq[r].humanId
                                      /\ hsr.site_role_id = preq[r].roleId
       THEN /\ human_site_roles' = human_site_roles
            /\ preq' = [preq EXCEPT ![r].pc = "done", ![r].status = 500]
       ELSE /\ human_site_roles' = human_site_roles \cup
                 {RoleRow(preq[r].humanId, preq[r].roleId, NULL)}
            /\ preq' = [preq EXCEPT ![r].pc = "done", ![r].status = 201]
  /\ UNCHANGED <<humans, nextHumanId, customers, email_history, nextEmailId,
                 areq, nReg, nUpd, clock, nRbac>>
  /\ UNCHANGED <<shopVars, migrateVars, catalogVars>>

\* lines 279-297: revokeRole: look the role up by name
RevokeRoleBegin(r, h, roleName) ==
  /\ PFree(r)
  /\ nRbac < MaxRbac
  /\ nRbac' = nRbac + 1
  /\ preq' = [preq EXCEPT ![r] =
        IF roleName \notin SiteRoles
          THEN [IdlePReq EXCEPT !.op = "revokeRole", !.pc = "done",
                                !.status = 400, !.humanId = h,
                                !.roleName = roleName]
          ELSE [IdlePReq EXCEPT !.op = "revokeRole", !.pc = "delete",
                                !.humanId = h, !.roleName = roleName,
                                !.roleId = roleName]]
  /\ UNCHANGED <<humans, nextHumanId, customers, email_history, nextEmailId,
                 human_site_roles, areq, nReg, nUpd, clock>>
  /\ UNCHANGED <<shopVars, migrateVars, catalogVars>>

\* lines 299-308: DELETE FROM human_site_roles WHERE human_id = ? AND
\* site_role_id = ?; 404 when no row was deleted
RevokeRoleDelete(r) ==
  /\ preq[r].op = "revokeRole" /\ preq[r].pc = "delete"
  /\ LET gone == {hsr \in human_site_roles :
                     /\ hsr.human_id = preq[r].humanId
                     /\ hsr.site_role_id = preq[r].roleId}
     IN /\ human_site_roles' = human_site_roles \ gone
        /\ preq' = [preq EXCEPT ![r].pc = "done",
                                ![r].status = IF gone = {} THEN 404 ELSE 200]
  /\ UNCHANGED <<humans, nextHumanId, customers, email_history, nextEmailId,
                 areq, nReg, nUpd, clock, nRbac>>
  /\ UNCHANGED <<shopVars, migrateVars, catalogVars>>

\* time passes: datetime('now') grows
ClockTick ==
  /\ clock < MaxClock
  /\ clock' = clock + 1
  /\ UNCHANGED <<humans, nextHumanId, customers, email_history, nextEmailId,
                 human_site_roles, areq, nReg, nUpd, preq, nRbac>>
  /\ UNCHANGED <<shopVars, migrateVars, catalogVars>>

\* no permission check or role change is running
RbacIdle ==
  /\ clock = 1
  /\ preq = [r \in Requests |-> IdlePReq]
  /\ nRbac = 0

\* two registered people and a role table taken from the catalog
RbacInit ==
  /\ humans = {1, 2}
  /\ nextHumanId = 3
  /\ customers = {[human_id |-> 1, username |-> 1],
                  [human_id |-> 2, username |-> 2]}
  /\ email_history =
       {[id |-> 1, human_id |-> 1, email |-> 1, effective_to |-> NULL,
         change_reason |-> "initial"],
        [id |-> 2, human_id |-> 2, email |-> 2, effective_to |-> NULL,
         change_reason |-> "initial"]}
  /\ nextEmailId = 3
  /\ human_site_roles \in RoleCatalog
  /\ areq = [r \in Requests |-> IdleAReq]
  /\ nReg = 0
  /\ nUpd = 0
  /\ RbacIdle

RbacStep(r) ==
  \/ \E s \in {NULL, 1, 2}, p \in Permissions : RequirePermissionBegin(r, s, p)
  \/ RequirePermissionCheck(r)
  \/ \E h \in {1, 2, 3}, n \in RoleNames : AssignRoleBegin(r, h, n)
  \/ AssignRoleFindRole(r)
  \/ AssignRoleCheckExisting(r)
  \/ AssignRoleInsert(r)
  \/ \E h \in {1, 2}, n \in RoleNames : RevokeRoleBegin(r, h, n)
  \/ RevokeRoleDelete(r)
  \/ ClockTick

\* ----- identity: initial state and steps --------------------------------------

IdentityInit ==
  /\ humans = {}
  /\ nextHumanId = 1
  /\ customers = {}
  /\ email_history = {}
  /\ nextEmailId = 1
  /\ human_site_roles = {}
  /\ areq = [r \in Requests |-> IdleAReq]
  /\ nReg = 0
  /\ nUpd = 0
  /\ RbacIdle

IdentityStep(r) ==
  \/ \E e \in Emails, u \in Usernames : RegisterBegin(r, e, u)
  \/ RegisterCheckUsername(r)
  \/ RegisterInsertHuman(r)
  \/ RegisterInsertCustomer(r)
  \/ RegisterInsertEmail(r)
  \/ RegisterAssignRole(r)
  \/ \E h \in 1..MaxReg, e \in Emails : UpdateEmailBegin(r, h, e)
  \/ UpdateEmailCheck(r)
  \/ UpdateEmailCloseOld(r)
  \/ UpdateEmailInsertNew(r)

\* ----- migration runner ------------------------------------------------------

MaxRuns  == 3      \* invocations of `node db/migrate.js <command>`
MaxUsers == 1      \* rows of the legacy users table

\* migrate.js lines 19-25: the declared migrations, ids '001'..'005'
migrations == <<1, 2, 3, 4, 5>>

MigrationIds == {migrations[i] : i \in 1..Len(migrations)}

\* position of a migration in the declared list (lines 19-25)
DeclaredPos(m) == CHOOSE i \in 1..Len(migrations) : migrations[i] = m

RECURSIVE FilterPending(_, _)
\* line 62: migrations.filter(m => !executed.includes(m.id)), order kept
FilterPending(ms, executed) ==
  IF Len(ms) = 0 THEN << >>
  ELSE IF Head(ms) \in executed
         THEN FilterPending(Tail(ms), executed)
         ELSE <<Head(ms)>> \o FilterPending(Tail(ms), executed)

\* a filter that never finds a migration in the ledger: everything is pending
Pending_IgnoreLedger(executed) == FilterPending(migrations, {})

\* the pending migrations taken last-declared first
Pending_Reversed(executed) ==
  LET p == FilterPending(migrations, executed)
  IN [i \in 1..Len(p) |-> p[Len(p) + 1 - i]]

\* lines 61-62: pending = declared migrations missing from the ledger
Pending(executed) == FilterPending(migrations, executed)

\* a rollback target taken from the front of the ORDER BY id list
LastExecuted_First(executed) == CHOOSE m \in executed : \A x \in executed : m <= x

\* lines 39-44 and 99: executed ids ORDER BY id; the last one
LastExecuted(executed) == CHOOSE m \in executed : \A x \in executed : x <= m

IdleRun == [cmd |-> "none", pc |-> "idle", pending |-> << >>, idx |-> 0,
            lastId |-> NULL, attempted |-> {}, applied |-> {},
            failedAt |-> NULL, failedStep |-> "none", outcome |-> "none",
            error |-> "none",
            ledger0 |-> {}, prevCmd |-> "none", prevOutcome |-> "none"]

RunFree == run.pc \in {"idle", "done", "exit"}

\* What the body of a migration's up() needs in order not to throw:
\* 002 reads the users table; 003 copies it and requires user_human_mapping
\* (003-cleanup-old-schema.js lines 22 and 32-38).
UpCanSucceed(m) ==
  CASE m = 2 -> usersTable
    [] m = 3 -> usersTable /\ mappingTable
    [] OTHER -> TRUE

\* a reverse operation that every migration can complete
DownCanSucceed_Always(m) == TRUE

\* 003's down() always throws 'Manual rollback required' (lines 136-146)
DownCanSucceed(m) == m # 3

\* error.message of a throwing down(): 003 throws its own Error, the others
\* rethrow what the database reported
DownError(m) == IF m = 3 THEN "Manual rollback required" ELSE "SQLITE_ERROR"

\* lines 58-69: runMigrations up to the start of the loop
RunUpBegin ==
  /\ RunFree
  /\ nRuns < MaxRuns
  /\ nRuns' = nRuns + 1
  /\ LET pending == Pending(ledger)
         base == [IdleRun EXCEPT !.cmd = "up", !.pending = pending,
                                 !.ledger0 = ledger, !.prevCmd = run.cmd,
                                 !.prevOutcome = run.outcome]
     IN IF Len(pending) = 0
          THEN run' = [base EXCEPT !.pc = "done", !.outcome = "uptodate"]
          ELSE run' = [base EXCEPT !.pc = "up", !.idx = 1]
  /\ UNCHANGED <<ledger, executedOrder, upCount, usersTable, legacyUsers,
                 mappingTable>>
  /\ UNCHANGED <<shopVars, identityVars, catalogVars>>

\* a catch that reports the failure and lets the loop go on with the next
\* pending migration
UpFailed_Continue(m, step) ==
  [run EXCEPT !.outcome = "failed", !.failedAt = m, !.failedStep = step,
              !.attempted = run.attempted \cup {m},
              !.idx = run.idx + 1,
              !.pc = IF run.idx = Len(run.pending) THEN "exit" ELSE "up"]

\* lines 79-83: the catch of the loop: report and process.exit(1)
UpFailed(m, step) ==
  [run EXCEPT !.pc = "exit", !.outcome = "failed", !.failedAt = m,
              !.failedStep = step, !.attempted = run.attempted \cup {m}]

\* line 76: await migration.module.up(); it completes or throws
MigrationUp(ok) ==
  /\ run.cmd = "up" /\ run.pc = "up"
  /\ LET m == run.pending[run.idx] IN
       IF ok
         THEN /\ UpCanSucceed(m)
              /\ upCount' = [upCount EXCEPT ![m] = upCount[m] + 1]
              /\ mappingTable' =
                   CASE m = 2 -> (mappingTable \/ legacyUsers > 0)
                     [] m = 3 -> FALSE
                     [] OTHER -> mappingTable
              /\ usersTable' = IF m = 3 THEN FALSE ELSE usersTable
              /\ run' = [run EXCEPT !.pc = "record",
                                    !.attempted = run.attempted \cup {m}]
         ELSE /\ run' = UpFailed(m, "up")
              /\ UNCHANGED <<upCount, mappingTable, usersTable>>
  /\ UNCHANGED <<ledger, executedOrder, legacyUsers, nRuns>>
  /\ UNCHANGED <<shopVars, identityVars, catalogVars>>

\* line 77 and lines 46-50: INSERT INTO migrations (id, name); it may throw
RecordMigration(ok) ==
  /\ run.cmd = "up" /\ run.pc = "record"
  /\ LET m == run.pending[run.idx] IN
       IF ok
         THEN /\ ledger' = ledger \cup {m}
              /\ executedOrder' = Append(executedOrder, m)
              /\ run' = [run EXCEPT
                    !.applied = run.applied \cup {m},
                    !.idx = run.idx + 1,
                    !.pc = IF run.idx = Len(run.pending) THEN "done" ELSE "up",
                    !.outcome = IF run.idx = Len(run.pending) THEN "ok"
                                                             ELSE "none"]
         ELSE /\ UNCHANGED <<ledger, executedOrder>>
              /\ run' = UpFailed(m, "record")
  /\ UNCHANGED <<upCount, usersTable, legacyUsers, mappingTable, nRuns>>
  /\ UNCHANGED <<shopVars, identityVars, catalogVars>>

\* lines 89-108: rollbackLastMigration up to the try
RunDownBegin ==
  /\ RunFree
  /\ nRuns < MaxRuns
  /\ nRuns' = nRuns + 1
  /\ LET base == [IdleRun EXCEPT !.cmd = "down", !.ledger0 = ledger,
                                 !.prevCmd = run.cmd,
                                 !.prevOutcome = run.outcome]
     IN IF ledger = {}
          THEN run' = [base EXCEPT !.pc = "done", !.outcome = "nothing"]
          ELSE run' = [base EXCEPT !.pc = "down",
                                   !.lastId = LastExecuted(ledger)]
  /\ UNCHANGED <<ledger, executedOrder, upCount, usersTable, legacyUsers,
                 mappingTable>>
  /\ UNCHANGED <<shopVars, identityVars, catalogVars>>

\* line 111: await migration.module.down(); lines 114-117 on a throw
MigrationDown(ok) ==
  /\ run.cmd = "down" /\ run.pc = "down"
  /\ LET m == run.lastId IN
       IF ok
         THEN /\ DownCanSucceed(m)
              /\ upCount' = [upCount EXCEPT ![m] = 0]
              /\ mappingTable' = IF m = 2 THEN FALSE ELSE mappingTable
              /\ run' = [run EXCEPT !.pc = "remove"]
         ELSE /\ run' = [run EXCEPT !.pc = "exit", !.outcome = "failed",
                                    !.failedAt = m, !.failedStep = "down",
                                    !.error = DownError(m)]
              /\ UNCHANGED <<upCount, mappingTable>>
  /\ UNCHANGED <<ledger, executedOrder, usersTable, legacyUsers, nRuns>>
  /\ UNCHANGED <<shopVars, identityVars, catalogVars>>

\* line 112 and lines 52-56: DELETE FROM migrations WHERE id = ?
RemoveMigrationRecord(ok) ==
  /\ run.cmd = "down" /\ run.pc = "remove"
  /\ IF ok
       THEN /\ ledger' = ledger \ {run.lastId}
            /\ executedOrder' = SelectSeq(executedOrder,
                                          LAMBDA x : x # run.lastId)
            /\ run' = [run EXCEPT !.pc = "done", !.outcome = "ok"]
       ELSE /\ UNCHANGED <<ledger, executedOrder>>
            /\ run' = [run EXCEPT !.pc = "exit", !.outcome = "failed",
                                  !.failedAt = run.lastId,
                                  !.failedStep = "remove"]
  /\ UNCHANGED <<upCount, usersTable, legacyUsers, mappingTable, nRuns>>
  /\ UNCHANGED <<shopVars, identityVars, catalogVars>>

\* a fresh database that still has the legacy users table, before any run
MigrateInit ==
  /\ ledger = {}
  /\ executedOrder = << >>
  /\ upCount = [m \in MigrationIds |-> 0]
  /\ usersTable = TRUE
  /\ legacyUsers \in 0..MaxUsers
  /\ mappingTable = FALSE
  /\ run = IdleRun
  /\ nRuns = 0

MigrateStep ==
  \/ RunUpBegin
  \/ \E ok \in BOOLEAN : MigrationUp(ok)
  \/ \E ok \in BOOLEAN : RecordMigration(ok)
  \/ RunDownBegin
  \/ \E ok \in BOOLEAN : MigrationDown(ok)
  \/ \E ok \in BOOLEAN : RemoveMigrationRecord(ok)

\* ----- catalog handlers: songs, products and the album bridge -----------------

MaxCat == 2      \* catalog requests

MusicTypes == {"Album", "Single", "EP"}

IdleCReq == [op |-> "idle", pc |-> "idle", status |-> 0, error |-> "",
             conn |-> "none", productId |-> NULL, songId |-> NULL,
             trackNumber |-> NULL, song |-> FALSE, type |-> "",
             artist |-> NULL, artistHumanId |-> NULL, songsIn |-> << >>,
             idx |-> 0, created |-> << >>,
             linked |-> FALSE]   \* the handler ran into a linked pair

CFree(r) == creq[r].pc \in {"idle", "done"}

\* an album_songs insert that no constraint guards
AlbumSongInsertAllowed_NoPrimaryKey(albumId, songId) ==
  /\ \E p \in products : p.id = albumId
  /\ songId \in songs

\* 005-add-songs-and-product-types.js lines 180-191: PRIMARY KEY (album_id,
\* song_id), both columns NOT NULL, and the two foreign keys (db.js line 15
\* turns foreign_keys ON for every connection)
AlbumSongInsertAllowed(albumId, songId) ==
  /\ ~ \E l \in album_songs : l.album_id = albumId /\ l.song_id = songId
  /\ \E p \in products : p.id = albumId
  /\ songId \in songs

AlbumSongRow(albumId, songId, trackNumber) ==
  [rowid |-> nextLinkRow, album_id |-> albumId, song_id |-> songId,
   track_number |-> trackNumber]

\* songController getSongs lines 29-46 with orphaned=true: songs LEFT JOIN
\* album_songs WHERE asong.song_id IS NULL
OrphanedSongs == {s \in songs : ~ \E l \in album_songs : l.song_id = s}

\* lines 304-316 of linkSongToAlbum: parse the ids (400 on NaN, before any
\* connection), track_number = track_number || 1, open the connection
LinkSongBegin(r, songId, albumId, track) ==
  /\ CFree(r)
  /\ nCat < MaxCat
  /\ nCat' = nCat + 1
  /\ creq' = [creq EXCEPT ![r] =
        IF songId = NaN \/ albumId = NaN
          THEN [IdleCReq EXCEPT !.op = "linkSongToAlbum", !.pc = "done",
                                !.status = 400,
                                !.error = "Invalid song or album ID"]
          ELSE [IdleCReq EXCEPT !.op = "linkSongToAlbum", !.pc = "findSong",
                                !.conn = "open", !.songId = songId,
                                !.productId = albumId,
                                !.trackNumber = IF track = NULL THEN 1
                                                ELSE track]]
  /\ UNCHANGED <<products, nextProductId, songs, nextSongId, album_songs,
                 nextLinkRow, artists>>
  /\ UNCHANGED <<shopVars, identityVars, migrateVars>>

\* line 319: SELECT id FROM songs WHERE id = ?
LinkSongFindSong(r) ==
  /\ creq[r].op = "linkSongToAlbum" /\ creq[r].pc = "findSong"
  /\ creq' = [creq EXCEPT ![r].song = (creq[r].songId \in songs),
                          ![r].pc = "findAlbum"]
  /\ UNCHANGED <<products, nextProductId, songs, nextSongId, album_songs,
                 nextLinkRow, artists, nCat>>
  /\ UNCHANGED <<shopVars, identityVars, migrateVars>>

\* lines 320-327: SELECT id FROM products WHERE id = ? AND type IN ("Album",
\* "Single", "EP"); 404 'Song not found', 404 'Album not found'; both return
\* without db.close()
LinkSongFindAlbum(r) ==
  /\ creq[r].op = "linkSongToAlbum" /\ creq[r].pc = "findAlbum"
  /\ LET album == \E p \in products : /\ p.id = creq[r].productId
                                      /\ p.type \in MusicTypes
     IN creq' = [creq EXCEPT ![r] =
          IF ~ creq[r].song
            THEN [creq[r] EXCEPT !.pc = "done", !.status = 404,
                                 !.error = "Song not found"]
          ELSE IF ~ album
            THEN [creq[r] EXCEPT !.pc = "done", !.status = 404,
                                 !.error = "Album not found"]
          ELSE [creq[r] EXCEPT !.pc = "checkExisting"]]
  /\ UNCHANGED <<products, nextProductId, songs, nextSongId, album_songs,
                 nextLinkRow, artists, nCat>>
  /\ UNCHANGED <<shopVars, identityVars, migrateVars>>

\* lines 330-337: SELECT * FROM album_songs WHERE album_id = ? AND song_id = ?;
\* 400 'Song is already on this album', returned without db.close()
LinkSongCheckExisting(r) ==
  /\ creq[r].op = "linkSongToAlbum" /\ creq[r].pc = "checkExisting"
  /\ creq' = [creq EXCEPT ![r] =
        IF \E l \in album_songs : /\ l.album_id = creq[r].productId
                                  /\ l.song_id = creq[r].songId
          THEN [creq[r] EXCEPT !.pc = "done", !.status = 400,
                               !.error = "Song is already on this album",
                               !.linked = TRUE]
          ELSE [creq[r] EXCEPT !.pc = "insert"]]
  /\ UNCHANGED <<products, nextProductId, songs, nextSongId, album_songs,
                 nextLinkRow, artists, nCat>>
  /\ UNCHANGED <<shopVars, identityVars, migrateVars>>

\* lines 340-351: INSERT INTO album_songs, db.close(), 201; a constraint
\* failure goes to the catch: 500 'Failed to link song to album', and the
\* catch does not close the connection
LinkSongInsert(r) ==
  /\ creq[r].op = "linkSongToAlbum" /\ creq[r].pc = "insert"
  /\ IF AlbumSongInsertAllowed(creq[r].productId, creq[r].songId)
       THEN /\ album_songs' = album_songs \cup
                 {AlbumSongRow(creq[r].productId, creq[r].songId,
                               creq[r].trackNumber)}
            /\ nextLinkRow' = nextLinkRow + 1
            /\ creq' = [creq EXCEPT ![r].pc = "done", ![r].status = 201,
                                    ![r].conn = "closed"]
       ELSE /\ creq' = [creq EXCEPT ![r].pc = "done", ![r].status = 500,
                             ![r].error = "Failed to link song to album",
                             ![r].linked =
                                \E l \in album_songs :
                                   /\ l.album_id = creq[r].productId
                                   /\ l.song_id = creq[r].songId]
            /\ UNCHANGED <<album_songs, nextLinkRow>>
  /\ UNCHANGED <<products, nextProductId, songs, nextSongId, artists, nCat>>
  /\ UNCHANGED <<shopVars, identityVars, migrateVars>>

\* lines 358-366 of unlinkSongFromAlbum: parse the ids, open the connection
UnlinkSongBegin(r, songId, albumId) ==
  /\ CFree(r)
  /\ nCat < MaxCat
  /\ nCat' = nCat + 1
  /\ creq' = [creq EXCEPT ![r] =
        IF songId = NaN \/ albumId = NaN
          THEN [IdleCReq EXCEPT !.op = "unlinkSongFromAlbum", !.pc = "done",
                                !.status = 400,
                                !.error = "Invalid song or album ID"]
          ELSE [IdleCReq EXCEPT !.op = "unlinkSongFromAlbum",
                                !.pc = "delete", !.conn = "open",
                                !.songId = songId, !.productId = albumId]]
  /\ UNCHANGED <<products, nextProductId, songs, nextSongId, album_songs,
                 nextLinkRow, artists>>
  /\ UNCHANGED <<shopVars, identityVars, migrateVars>>

\* lines 368-378: DELETE FROM album_songs WHERE album_id = ? AND song_id = ?;
\* changes === 0: 404 returned without db.close(); otherwise close and 204
UnlinkSongDelete(r) ==
  /\ creq[r].op = "unlinkSongFromAlbum" /\ creq[r].pc = "delete"
  /\ LET hit == {l \in album_songs : /\ l.album_id = creq[r].productId
                                      /\ l.song_id = creq[r].songId}
     IN /\ album_songs' = album_songs \ hit
        /\ creq' = [creq EXCEPT ![r] =
             IF hit = {}
               THEN [creq[r] EXCEPT !.pc = "done", !.status = 404,
                                    !.error = "Song-album link not found"]
               ELSE [creq[r] EXCEPT !.pc = "done", !.status = 204,
                                    !.conn = "closed"]]
  /\ UNCHANGED <<products, nextProductId, songs, nextSongId, nextLinkRow,
                 artists, nCat>>
  /\ UNCHANGED <<shopVars, identityVars, migrateVars>>

\* lines 333-340 of deleteProduct: parse the id, open the connection
DeleteProductBegin(r, productId) ==
  /\ CFree(r)
  /\ nCat < MaxCat
  /\ nCat' = nCat + 1
  /\ creq' = [creq EXCEPT ![r] =
        IF productId = NaN
          THEN [IdleCReq EXCEPT !.op = "deleteProduct", !.pc = "done",
                                !.status = 400,
                                !.error = "Invalid product ID"]
          ELSE [IdleCReq EXCEPT !.op = "deleteProduct", !.pc = "find",
                                !.conn = "open", !.productId = productId]]
  /\ UNCHANGED <<products, nextProductId, songs, nextSongId, album_songs,
                 nextLinkRow, artists>>
  /\ UNCHANGED <<shopVars, identityVars, migrateVars>>

\* lines 343-346: SELECT id, title FROM products WHERE id = ?; 404 without it
DeleteProductFind(r) ==
  /\ creq[r].op = "deleteProduct" /\ creq[r].pc = "find"
  /\ creq' = [creq EXCEPT ![r] =
        IF \E p \in products : p.id = creq[r].productId
          THEN [creq[r] EXCEPT !.pc = "delete"]
          ELSE [creq[r] EXCEPT !.pc = "done", !.status = 404,
                               !.error = "Product not found"]]
  /\ UNCHANGED <<products, nextProductId, songs, nextSongId, album_songs,
                 nextLinkRow, artists, nCat>>
  /\ UNCHANGED <<shopVars, identityVars, migrateVars>>

\* the rows a DELETE of the product row takes with it: a bridge that forgot
\* its cascade keeps its rows
BridgeAfterProductDelete_NoCascade(productId) == album_songs

\* 005-add-songs-and-product-types.js line 186: album_songs.album_id
\* REFERENCES products(id) ON DELETE CASCADE; line 187 cascades from songs
\* only, so no song row goes with a product
BridgeAfterProductDelete(productId) ==
  {l \in album_songs : l.album_id # productId}

\* 010-add-song-support-to-cart.js line 32: cart_items.product_id
\* REFERENCES products(id) ON DELETE CASCADE
CartAfterProductDelete(productId) ==
  {ci \in cart_items : ci.product_id # productId}

\* 003-cleanup-old-schema.js line 229: order_items.product_id REFERENCES
\* products(id) ON DELETE RESTRICT
ProductDeleteRestricted(productId) ==
  \E oi \in order_items : oi.product_id = productId

\* lines 349-369: DELETE FROM products WHERE id = ?; changes === 0: 404; a
\* foreign-key error: 400 'Cannot delete product'; otherwise 204. No exit of
\* the handler closes the connection.
DeleteProductRun(r) ==
  /\ creq[r].op = "deleteProduct" /\ creq[r].pc = "delete"
  /\ LET p == creq[r].productId
     IN IF ~ \E row \in products : row.id = p
          THEN /\ creq' = [creq EXCEPT ![r].pc = "done", ![r].status = 404,
                      ![r].error = "Product not found or already deleted"]
               /\ UNCHANGED <<products, album_songs, cart_items, added>>
          ELSE IF ProductDeleteRestricted(p)
          THEN /\ creq' = [creq EXCEPT ![r].pc = "done", ![r].status = 400,
                                       ![r].error = "Cannot delete product"]
               /\ UNCHANGED <<products, album_songs, cart_items, added>>
          ELSE /\ products' = {row \in products : row.id # p}
               /\ album_songs' = BridgeAfterProductDelete(p)
               /\ cart_items' = CartAfterProductDelete(p)
               /\ added' = [k \in CartKeys |->
                              IF k[2] = p THEN 0 ELSE added[k]]
               /\ creq' = [creq EXCEPT ![r].pc = "done", ![r].status = 204]
  /\ UNCHANGED <<nextProductId, songs, nextSongId, nextLinkRow, artists, nCat>>
  /\ UNCHANGED <<nextCartId, coupons, orders, nextOrderId, order_items,
                 order_coupons, req, nAdds, nCheckout, nDel, cartHandler>>
  /\ UNCHANGED <<identityVars, migrateVars>>

\* a nested song of the createProduct body
SongIn(title, track) == [title |-> title, track_number |-> track]

\* the song lists the admin form sends: none, two titled songs without track
\* numbers, an untitled song followed by a titled one with track number 3
SongLists ==
  { << >>,
    <<SongIn(1, NULL), SongIn(1, NULL)>>,
    <<SongIn(NULL, NULL), SongIn(1, 3)>> }

\* lines 260 and 312: track_number || 1
TrackNumberOrDefault(track) == IF track = NULL THEN 1 ELSE track

\* lines 230-235: the loop skips the songs without a title; the index of the
\* next titled song from i on, 0 when the loop is over
RECURSIVE NextTitled(_, _)
NextTitled(songsIn, i) ==
  IF i > Len(songsIn) THEN 0
  ELSE IF songsIn[i].title # NULL THEN i
  ELSE NextTitled(songsIn, i + 1)

\* lines 229-273: go on with the next titled song, or answer 201 after the
\* last one; createProduct never closes its connection
SongsPhase(c, from) ==
  LET j == NextTitled(c.songsIn, from)
  IN IF j = 0 THEN [c EXCEPT !.pc = "done", !.status = 201]
     ELSE [c EXCEPT !.pc = "insertSong", !.idx = j]

\* lines 135-186 of createProduct: the body passed validation; open the
\* connection
CreateProductBegin(r, type, artist, songsIn) ==
  /\ CFree(r)
  /\ nCat < MaxCat
  /\ nCat' = nCat + 1
  /\ creq' = [creq EXCEPT ![r] =
        [IdleCReq EXCEPT !.op = "createProduct", !.pc = "insertProduct",
                         !.conn = "open", !.type = type, !.artist = artist,
                         !.songsIn = songsIn]]
  /\ UNCHANGED <<products, nextProductId, songs, nextSongId, album_songs,
                 nextLinkRow, artists>>
  /\ UNCHANGED <<shopVars, identityVars, migrateVars>>

\* lines 189-198: INSERT INTO products; productId = lastID
CreateProductInsertProduct(r) ==
  /\ creq[r].op = "createProduct" /\ creq[r].pc = "insertProduct"
  /\ products' = products \cup {[id |-> nextProductId, type |-> creq[r].type]}
  /\ nextProductId' = nextProductId + 1
  /\ LET c == [creq[r] EXCEPT !.productId = nextProductId]
     IN creq' = [creq EXCEPT ![r] =
          IF c.type \in MusicTypes THEN [c EXCEPT !.pc = "findArtist"]
          ELSE SongsPhase(c, 1)]
  /\ UNCHANGED <<songs, nextSongId, album_songs, nextLinkRow, artists, nCat>>
  /\ UNCHANGED <<shopVars, identityVars, migrateVars>>

\* lines 200-206, 222-224: SELECT human_id FROM artists WHERE
\* LOWER(stage_name) = LOWER(?)
CreateProductFindArtist(r) ==
  /\ creq[r].op = "createProduct" /\ creq[r].pc = "findArtist"
  /\ creq' = [creq EXCEPT ![r] =
        IF \E a \in artists : a.stage_name = creq[r].artist
          THEN SongsPhase(
                 [creq[r] EXCEPT !.artistHumanId =
                    (CHOOSE a \in artists :
                       a.stage_name = creq[r].artist).human_id], 1)
          ELSE [creq[r] EXCEPT !.pc = "insertHuman"]]
  /\ UNCHANGED <<products, nextProductId, songs, nextSongId, album_songs,
                 nextLinkRow, artists, nCat>>
  /\ UNCHANGED <<shopVars, identityVars, migrateVars>>

\* lines 208-213: INSERT INTO humans (first_name, last_name)
CreateProductInsertHuman(r) ==
  /\ creq[r].op = "createProduct" /\ creq[r].pc = "insertHuman"
  /\ humans' = humans \cup {nextHumanId}
  /\ nextHumanId' = nextHumanId + 1
  /\ creq' = [creq EXCEPT ![r].artistHumanId = nextHumanId,
                          ![r].pc = "insertArtist"]
  /\ UNCHANGED <<products, nextProductId, songs, nextSongId, album_songs,
                 nextLinkRow, artists, nCat>>
  /\ UNCHANGED <<customers, email_history, nextEmailId, human_site_roles,
                 areq, nReg, nUpd, rbacVars>>
  /\ UNCHANGED <<shopVars, migrateVars>>

\* lines 216-221: INSERT INTO artists (human_id, stage_name); stage_name is
\* UNIQUE (001-create-new-schema.js line 133), a collision goes to the catch
\* (lines 275-278): 500 'Failed to create product'
CreateProductInsertArtist(r) ==
  /\ creq[r].op = "createProduct" /\ creq[r].pc = "insertArtist"
  /\ IF \E a \in artists : a.stage_name = creq[r].artist
       THEN /\ creq' = [creq EXCEPT ![r].pc = "done", ![r].status = 500,
                                    ![r].error = "Failed to create product"]
            /\ UNCHANGED artists
       ELSE /\ artists' = artists \cup
                 {[human_id |-> creq[r].artistHumanId,
                   stage_name |-> creq[r].artist]}
            /\ creq' = [creq EXCEPT ![r] = SongsPhase(creq[r], 1)]
  /\ UNCHANGED <<products, nextProductId, songs, nextSongId, album_songs,
                 nextLinkRow, nCat>>
  /\ UNCHANGED <<shopVars, identityVars, migrateVars>>

\* lines 238-251: INSERT INTO songs; songId = lastID
CreateProductInsertSong(r) ==
  /\ creq[r].op = "createProduct" /\ creq[r].pc = "insertSong"
  /\ songs' = songs \cup {nextSongId}
  /\ nextSongId' = nextSongId + 1
  /\ creq' = [creq EXCEPT ![r].songId = nextSongId, ![r].pc = "insertBridge"]
  /\ UNCHANGED <<products, nextProductId, album_songs, nextLinkRow, artists,
                 nCat>>
  /\ UNCHANGED <<shopVars, identityVars, migrateVars>>

\* lines 254-265: INSERT INTO album_songs (productId, songId,
\* track_number || 1, disc_number || 1); songsInserted++. A constraint
\* failure (the product was deleted meanwhile) goes to the catch: 500
CreateProductInsertBridge(r) ==
  /\ creq[r].op = "createProduct" /\ creq[r].pc = "insertBridge"
  /\ LET song == creq[r].songsIn[creq[r].idx]
     IN IF AlbumSongInsertAllowed(creq[r].productId, creq[r].songId)
          THEN /\ album_songs' = album_songs \cup
                    {AlbumSongRow(creq[r].productId, creq[r].songId,
                                  TrackNumberOrDefault(song.track_number))}
               /\ nextLinkRow' = nextLinkRow + 1
               /\ creq' = [creq EXCEPT ![r] =
                    SongsPhase(
                      [creq[r] EXCEPT !.created =
                         Append(creq[r].created,
                                [song_id |-> creq[r].songId,
                                 track_number |-> song.track_number])],
                      creq[r].idx + 1)]
          ELSE /\ creq' = [creq EXCEPT ![r].pc = "done", ![r].status = 500,
                                ![r].error = "Failed to create product"]
               /\ UNCHANGED <<album_songs, nextLinkRow>>
  /\ UNCHANGED <<products, nextProductId, songs, nextSongId, artists, nCat>>
  /\ UNCHANGED <<shopVars, identityVars, migrateVars>>

\* ----- catalog: initial state and steps ----------------------------------------

BridgeRow(rowid, albumId, songId, track) ==
  [rowid |-> rowid, album_id |-> albumId, song_id |-> songId,
   track_number |-> track]

\* bridges the link handler can have built on the seeded products 1 and 2 and
\* songs 1 and 2: song 1 on both albums, song 2 on album 1 only
BridgeCatalog ==
  { {},
    {BridgeRow(1, 1, 1, 1), BridgeRow(2, 1, 2, 2), BridgeRow(3, 2, 1, 1)} }

CatalogInit ==
  /\ products = {[id |-> 1, type |-> "Album"], [id |-> 2, type |-> "EP"]}
  /\ nextProductId = 3
  /\ songs = {1, 2}
  /\ nextSongId = 3
  /\ \E b \in BridgeCatalog : /\ album_songs = b
                              /\ nextLinkRow = Cardinality(b) + 1
  /\ artists = {}
  /\ creq = [r \in Requests |-> IdleCReq]
  /\ nCat = 0

\* a catalog on which no request is running
CatalogIdle == CatalogInit /\ album_songs = {}

\* the shop the catalog handlers run against: a cart with product and song
\* rows, and either no order or one committed order of product 2
CatalogShopInit ==
  /\ cart_items = {CartRow(1, 1, 1, NULL, 1), CartRow(2, 1, NULL, 1, 1),
                   CartRow(3, 2, NULL, 1, 1)}
  /\ nextCartId = 4
  /\ added = [k \in CartKeys |->
                IF k \in {<<1, 1, NULL>>, <<1, NULL, 1>>, <<2, NULL, 1>>}
                  THEN 1 ELSE 0]
  /\ coupons = {}
  /\ cartHandler = "productOrSong"
  /\ \/ /\ orders = {}
        /\ nextOrderId = 1
        /\ order_items = {}
     \/ /\ orders = {[id |-> 1, human_id |-> 2, subtotal |-> Price(2),
                      discount_amount |-> 0,
                      tax_amount |-> TaxAmount(Price(2), 0),
                      total_amount |-> TotalAmount(Price(2), 0)]}
        /\ nextOrderId = 2
        /\ order_items = {[order_id |-> 1, seq |-> 1, product_id |-> 2,
                           quantity |-> 1, unit_price |-> Price(2),
                           line_total |-> Price(2)]}
  /\ order_coupons = {}
  /\ req = [r \in Requests |-> IdleReq]
  /\ nAdds = 0
  /\ nCheckout = 0
  /\ nDel = 0

\* the ids the admin pages send: existing rows, a row that does not exist
\* yet (3) and an id that is not a number
LinkInputs == {<<1, 1>>, <<2, 2>>, <<1, 3>>, <<3, 1>>, <<NaN, 1>>}

CatalogStep(r) ==
  \/ \E pair \in LinkInputs, track \in {NULL, 2} :
        LinkSongBegin(r, pair[1], pair[2], track)
  \/ LinkSongFindSong(r)
  \/ LinkSongFindAlbum(r)
  \/ LinkSongCheckExisting(r)
  \/ LinkSongInsert(r)
  \/ \E pair \in LinkInputs : UnlinkSongBegin(r, pair[1], pair[2])
  \/ UnlinkSongDelete(r)
  \/ \E p \in {1, 2, 3, NaN} : DeleteProductBegin(r, p)
  \/ DeleteProductFind(r)
  \/ DeleteProductRun(r)
  \/ \E type \in {"Album", "Merch"}, songsIn \in SongLists :
        CreateProductBegin(r, type, 1, songsIn)
  \/ CreateProductFindArtist(r)
  \/ CreateProductInsertProduct(r)
  \/ CreateProductInsertHuman(r)
  \/ CreateProductInsertArtist(r)
  \/ CreateProductInsertSong(r)
  \/ CreateProductInsertBridge(r)

\* ----- specifications --------------------------------------------------------

vars == <<shopVars, identityVars, migrateVars, catalogVars>>

\* a migrated database on which no runner is active
MigrateIdle == MigrateInit /\ legacyUsers = 0

\* a shop with empty tables on which no request is running
ShopIdle == CartInit /\ cartHandler = "productOrSong"

\* cart handlers, one request at a time
NextCartSeq == CartStep(1) \/ RemoveStep(1)
InitCart == CartInit /\ IdentityInit /\ MigrateIdle /\ CatalogIdle
SpecCartSeq == InitCart /\ [][NextCartSeq]_vars

\* cart handlers, requests interleaving at every await
NextCart == \E r \in Requests : CartStep(r)
SpecCart == InitCart /\ [][NextCart]_vars

\* remove-from-cart requests interleaving at every await
NextCartRemove == \E r \in Requests : RemoveStep(r)
InitCartRemove == RemoveInit /\ IdentityInit /\ MigrateIdle /\ CatalogIdle
SpecCartRemove == InitCartRemove /\ [][NextCartRemove]_vars

\* checkout commits, requests interleaving at every await
NextCheckout == \E r \in Requests : CheckoutStep(r)
InitCheckout == CheckoutInit /\ IdentityInit /\ MigrateIdle /\ CatalogIdle
SpecCheckout == InitCheckout /\ [][NextCheckout]_vars

\* registration and email update, requests interleaving at every await
NextIdentity == \E r \in Requests : IdentityStep(r)
InitIdentity == ShopIdle /\ IdentityInit /\ MigrateIdle /\ CatalogIdle
SpecIdentity == InitIdentity /\ [][NextIdentity]_vars

\* permission checks, role assignment and revocation, requests interleaving
NextRbac == \E r \in Requests : RbacStep(r)
InitRbac == ShopIdle /\ RbacInit /\ MigrateIdle /\ CatalogIdle
SpecRbac == InitRbac /\ [][NextRbac]_vars

\* the migration runner, a one-shot offline process
NextMigrate == MigrateStep
InitMigrate == ShopIdle /\ IdentityInit /\ MigrateInit /\ CatalogIdle
SpecMigrate == InitMigrate /\ [][NextMigrate]_vars

\* catalog handlers, requests interleaving at every await
NextCatalog == \E r \in Requests : CatalogStep(r)
InitCatalog == CatalogShopInit /\ IdentityInit /\ MigrateIdle /\ CatalogInit
SpecCatalog == InitCatalog /\ [][NextCatalog]_vars

\* ----- properties ------------------------------------------------------------

\* C1: if a write of a checkout commit fails after the order row has been
\* inserted, the order creation is rolled back: no order row and no
\* order_items of that commit exist, the coupon usage counter and the
\* person's cart are as they were when the commit began.
C1_FailedCommitRolledBack ==
  \A r \in Requests :
    (/\ req[r].op = "createOrder" /\ req[r].pc = "done"
     /\ req[r].status = 500 /\ req[r].orderId # NULL)
    => /\ ~ \E o \in orders : o.id = req[r].orderId
       /\ ~ \E oi \in order_items : oi.order_id = req[r].orderId
       /\ ~ \E oc \in order_coupons : oc.order_id = req[r].orderId
       /\ coupons = req[r].coupons0
       /\ CartOf(req[r].humanId) = req[r].cart0

\* C2: for every coupon that passes validation the applied discount is at
\* most the subtotal and the order total is never negative.
C2_DiscountClamped ==
  /\ \A r \in Requests :
       (req[r].op = "createOrder" /\ req[r].couponId # NULL)
       => (req[r].discountAmount <= req[r].subtotal /\ req[r].totalAmount >= 0)
  /\ \A o \in orders : o.discount_amount <= o.subtotal /\ o.total_amount >= 0

\* C3: the step that completes a checkout commit with 201 leaves the
\* person's cart without rows and exactly one order of that commit, whose
\* order_items line totals sum to the subtotal computed before the commit.
C3_SuccessfulCheckout ==
  [][\A r \in Requests :
       (req[r].op = "createOrder" /\ req[r].pc = "clearCart"
        /\ req'[r].status = 201)
       => /\ {ci \in cart_items' : ci.human_id = req[r].humanId} = {}
          /\ Cardinality({o \in orders' : o.id = req[r].orderId}) = 1
          /\ \A o \in orders' : o.id = req[r].orderId
                => o.human_id = req[r].humanId /\ o.subtotal = req[r].subtotal
          /\ Cardinality({oi \in order_items' : oi.order_id = req[r].orderId})
               = Len(req[r].cartItems)
          /\ LineTotalSum({oi \in order_items' : oi.order_id = req[r].orderId})
               = req[r].subtotal]_vars

\* a commit over a cart that held a product row and a song row has answered 201
C3_Witness ==
  \E r \in Requests :
    /\ req[r].op = "createOrder" /\ req[r].status = 201
    /\ Len(req[r].cartItems) >= 1
    /\ \E ci \in req[r].cart0 : ci.song_id # NULL
    /\ \E o \in orders : o.id = req[r].orderId

\* C4: starting from a cart without the item, N sequential adds of the same
\* (person, product) leave exactly one row for the pair, with quantity N.
C4_SequentialAdds ==
  \A h \in Humans, p \in Products :
    LET rows == {ci \in cart_items : /\ ci.human_id = h
                                     /\ ci.product_id = p
                                     /\ ci.song_id = NULL}
        n == added[<<h, p, NULL>>]
    IN IF n = 0 THEN rows = {}
       ELSE /\ Cardinality(rows) = 1
            /\ \A ci \in rows : ci.quantity = n

\* three adds of one product by one person: one row of quantity 3
C4_Witness ==
  \E h \in Humans, p \in Products :
    /\ added[<<h, p, NULL>>] = 3
    /\ \E ci \in cart_items : ci.human_id = h /\ ci.product_id = p
                              /\ ci.quantity = 3

\* C5: every cart row has exactly one of product_id and song_id set, and an
\* add that supplies both or neither is rejected.
C5_ExactlyOneReference ==
  /\ \A ci \in cart_items : (ci.product_id # NULL) # (ci.song_id # NULL)
  /\ \A r \in Requests :
       (/\ req[r].op \in {"addToCart", "addToCartLegacy"}
        /\ req[r].pc = "done"
        /\ (req[r].productId # NULL) = (req[r].songId # NULL))
       => req[r].status = 400

\* C6: no two persons hold an active email-history row with the same email,
\* and a registration or email update that runs into an email already active
\* for another person is answered as a conflict (400 'already in use'), not
\* as a generic failure.
C6_ActiveEmailUnique ==
  /\ \A e1, e2 \in ActiveEmails :
       e1.email = e2.email => e1.human_id = e2.human_id
  /\ \A r \in Requests :
       (/\ areq[r].op \in {"registerUser", "updateUserEmail"}
        /\ areq[r].pc = "done"
        /\ (areq[r].existingEmail
            \/ areq[r].error = "UNIQUE email_history.email")
        /\ areq[r].holder # areq[r].humanId)
       => areq[r].status = 400

HasPerson(h)   == h \in humans
HasCustomer(h) == \E c \in customers : c.human_id = h
HasEmail(h)    == \E e \in email_history : e.human_id = h
HasRole(h)     == \E hr \in human_site_roles : hr.human_id = h

\* C7: after any registration attempt either all four rows (person,
\* customer, email history, role assignment) of the new person exist or
\* none of them does.
C7_RegistrationAtomic ==
  \A r \in Requests :
    (areq[r].op = "registerUser" /\ areq[r].pc = "done")
    => LET h == areq[r].humanId
       IN \/ HasPerson(h) /\ HasCustomer(h) /\ HasEmail(h) /\ HasRole(h)
          \/ ~HasPerson(h) /\ ~HasCustomer(h) /\ ~HasEmail(h) /\ ~HasRole(h)

\* C8: when a migration's up() fails during an up run the run stops at once:
\* nothing after the failed migration is attempted, the failed migration is
\* not in the ledger, and what the run applied before stays recorded.
C8_UpFailureStopsRun ==
  (run.cmd = "up" /\ run.outcome = "failed" /\ run.failedStep = "up")
  => /\ run.pc = "exit"
     /\ run.failedAt \notin ledger
     /\ run.applied \subseteq ledger
     /\ ledger = run.ledger0 \cup run.applied
     /\ run.attempted = run.applied \cup {run.failedAt}

\* an up run recorded at least one migration and then stopped on a failing up()
C8_Witness ==
  /\ run.cmd = "up" /\ run.outcome = "failed" /\ run.failedStep = "up"
  /\ run.applied # {}
  /\ run.idx < Len(run.pending)

\* C9: a migration whose up() has completed is not executed again unless
\* down() reversed it in between, whatever made earlier runs stop.
C9_UpAtMostOnce == \A m \in MigrationIds : upCount[m] <= 1

\* C10: an up run that directly follows a successful up run executes no
\* migration and leaves the ledger as it found it.
C10_SecondUpIsNoOp ==
  (/\ run.cmd = "up" /\ run.prevCmd = "up"
   /\ run.prevOutcome \in {"ok", "uptodate"})
  => /\ run.pc = "done" /\ run.outcome = "uptodate"
     /\ run.attempted = {}
     /\ ledger = run.ledger0

\* the second of two up runs has finished after the first applied all five
C10_Witness ==
  /\ run.cmd = "up" /\ run.prevCmd = "up" /\ run.prevOutcome = "ok"
  /\ run.pc = "done"
  /\ ledger = MigrationIds

\* C11: an up run works on exactly the declared migrations missing from the
\* ledger, in declared order; each one is in the ledger before the next one
\* starts; a run that succeeds leaves every declared migration recorded.
C11_UpAppliesPendingInOrder ==
  (run.cmd = "up") =>
    LET n == Len(run.pending)
        before == {run.pending[j] : j \in 1..(run.idx - 1)}
    IN /\ {run.pending[i] : i \in 1..n} = MigrationIds \ run.ledger0
       /\ \A i, j \in 1..n :
            i < j => DeclaredPos(run.pending[i]) < DeclaredPos(run.pending[j])
       /\ (run.pc \in {"up", "record"}) =>
            /\ run.applied = before
            /\ ledger = run.ledger0 \cup before
            /\ run.attempted = before \cup (IF run.pc = "record"
                                              THEN {run.pending[run.idx]}
                                              ELSE {})
       /\ (run.outcome = "ok") =>
            /\ run.applied = MigrationIds \ run.ledger0
            /\ run.attempted = run.applied
            /\ ledger = MigrationIds

\* an up run that found 001-003 in the ledger has applied 004 and 005
C11_Witness ==
  /\ run.cmd = "up" /\ run.outcome = "ok"
  /\ run.ledger0 = {1, 2, 3}
  /\ run.applied = {4, 5}
  /\ ledger = MigrationIds

\* C12: down works on the migration whose ledger row was written most
\* recently; the ledger is untouched until the reverse has succeeded, and a
\* successful down removes that migration's row and no other.
C12_DownRemovesLastOnly ==
  (run.cmd = "down" /\ run.lastId # NULL) =>
    /\ run.lastId \in run.ledger0
    /\ (run.pc \in {"down", "remove"}) =>
         /\ ledger = run.ledger0
         /\ run.lastId = executedOrder[Len(executedOrder)]
    /\ (run.outcome = "ok") =>
         /\ ledger = run.ledger0 \ {run.lastId}
         /\ {executedOrder[i] : i \in 1..Len(executedOrder)} = ledger
         /\ Len(executedOrder) = Cardinality(ledger)

\* a down run on a ledger of several rows has removed the newest row and kept
\* the older ones
C12_Witness ==
  /\ run.cmd = "down" /\ run.outcome = "ok"
  /\ Cardinality(run.ledger0) >= 2
  /\ ledger = run.ledger0 \ {run.lastId}
  /\ ledger # {}

\* C13: when the newest ledger row is migration 003, down ends with exit code
\* 1 and the message 'Manual rollback required'; it never reaches the ledger
\* delete, so the row of 003 and every other row stay.
C13_IrreversibleDownFails ==
  (run.cmd = "down" /\ run.lastId = 3 /\ run.pc # "down") =>
    /\ run.pc = "exit"
    /\ run.outcome = "failed"
    /\ run.failedStep = "down"
    /\ run.error = "Manual rollback required"
    /\ 3 \in ledger
    /\ ledger = run.ledger0

\* a down run whose target was 003 has stopped
C13_Witness ==
  /\ run.cmd = "down" /\ run.lastId = 3
  /\ run.pc = "exit"
  /\ ledger = {1, 2, 3}

\* C14: the usage counter of a coupon that has a usage cap never exceeds the
\* cap, whatever the order in which checkout commits run their statements.
C14_UsageWithinCap ==
  \A c \in coupons : c.max_uses # NULL => c.times_used <= c.max_uses

\* C15: of two checkout commits that the same person ran on the same cart
\* contents, at most one is answered 201 with an order.
C15_CartOrderedOnce ==
  \A r1, r2 \in Requests :
    (/\ r1 # r2
     /\ req[r1].op = "createOrder" /\ req[r2].op = "createOrder"
     /\ req[r1].humanId = req[r2].humanId
     /\ req[r1].cart0 = req[r2].cart0
     /\ req[r1].status = 201)
    => req[r2].status # 201

\* C16: the cart never holds two rows with the same person, product reference
\* and song reference, however concurrent adds interleave.
C16_NoDuplicateCartRows ==
  (cartHandler = "productOrSong") =>
    \A a, b \in cart_items :
      (/\ a.human_id = b.human_id
       /\ a.product_id = b.product_id
       /\ a.song_id = b.song_id)
      => a = b

\* C17: every person has at most one email_history row whose effective_to is
\* NULL, whatever registrations and email updates have run or are running.
C17_OneActiveEmailPerPerson ==
  \A a, b \in ActiveEmails : a.human_id = b.human_id => a = b

C19_RemoveOwnedOnly ==
  [][\A r \in Requests :
       /\ (/\ Free(r) /\ req'[r] # req[r] /\ req'[r].op = "deleteItem")
          => LET owned == {ci \in cart_items :
                              /\ ci.id = req'[r].itemId
                              /\ ci.human_id = req'[r].humanId}
             IN /\ cart_items' = cart_items
                /\ (owned = {}) => /\ req'[r].pc = "done"
                                   /\ req'[r].status = 400
                                   /\ req'[r].error \in {"Item not found",
                                                         "Invalid item ID"}
                /\ (owned # {}) => req'[r].pc = "delete"
       /\ (/\ req[r].op = "deleteItem" /\ req[r].pc = "delete"
           /\ req'[r].pc = "done")
          => /\ req'[r].status = 204
             /\ cart_items' \subseteq cart_items
             /\ \A ci \in cart_items \ cart_items' :
                   ci.id = req[r].itemId /\ ci.human_id = req[r].humanId
             /\ ~ \E ci \in cart_items' :
                   ci.id = req[r].itemId /\ ci.human_id = req[r].humanId]_vars

\* one person has removed an own row (204) and a request for a row that
\* exists but belongs to someone else was answered 'Item not found'
C19_Witness ==
  \E r1, r2 \in Requests :
    /\ req[r1].op = "deleteItem" /\ req[r1].status = 204
    /\ ~ \E ci \in cart_items : ci.id = req[r1].itemId
    /\ req[r2].op = "deleteItem" /\ req[r2].status = 400
    /\ req[r2].error = "Item not found"
    /\ \E ci \in cart_items : /\ ci.id = req[r2].itemId
                              /\ ci.human_id # req[r2].humanId

C21_FixedCouponClamped ==
  \A r \in Requests, c \in coupons :
    (/\ req[r].op \in {"createOrder", "previewOrder"}
     /\ req[r].couponId = c.id
     /\ c.discount_type = "fixed_amount"
     /\ c.discount_value > req[r].subtotal)
    => /\ req[r].discountAmount = req[r].subtotal
       /\ req[r].taxAmount = 0
       /\ req[r].totalAmount = 0
       /\ \A o \in orders :
            o.id = req[r].orderId
            => o.discount_amount = o.subtotal /\ o.total_amount = 0

\* a commit with the fixed 50.00 coupon on a cart worth 44.99 has stored an
\* order with discount 44.99 and total 0
C21_Witness ==
  \E r \in Requests, c \in coupons, o \in orders :
    /\ req[r].op = "createOrder" /\ req[r].status = 201
    /\ req[r].couponId = c.id
    /\ c.discount_type = "fixed_amount" /\ c.discount_value = 5000
    /\ o.id = req[r].orderId
    /\ o.subtotal = 4499 /\ o.discount_amount = 4499 /\ o.total_amount = 0

C23_EmptyCartRejected ==
  [][\A r \in Requests :
       (/\ Free(r) /\ req'[r] # req[r]
        /\ req'[r].op \in {"createOrder", "previewOrder"}
        /\ CartOf(req'[r].humanId) = {})
       => /\ req'[r].pc = "done"
          /\ req'[r].status = 400
          /\ req'[r].error = "Cart is empty"
          /\ req'[r].subtotal = 0 /\ req'[r].couponId = NULL
          /\ req'[r].orderId = NULL
          /\ UNCHANGED <<cart_items, coupons, orders, order_items,
                         order_coupons>>]_vars

\* a preview and a commit of a person without cart rows were both rejected
\* and nothing has been stored
C23_Witness ==
  \E r1, r2 \in Requests :
    /\ req[r1].op = "previewOrder" /\ req[r1].status = 400
    /\ req[r1].error = "Cart is empty" /\ req[r1].cart0 = {}
    /\ req[r2].op = "createOrder" /\ req[r2].status = 400
    /\ req[r2].error = "Cart is empty" /\ req[r2].cart0 = {}
    /\ req[r1].humanId = req[r2].humanId
    /\ orders = {} /\ order_items = {} /\ order_coupons = {}

\* C24: the bridge never holds two rows for the same (album, song) pair, and
\* a link request that runs into a pair that is already linked is answered as
\* a conflict (400 'Song is already on this album'), not as a generic failure.
C24_LinkConflict ==
  /\ \A l1, l2 \in album_songs :
       (l1.album_id = l2.album_id /\ l1.song_id = l2.song_id) => l1 = l2
  /\ \A r \in Requests :
       (/\ creq[r].op = "linkSongToAlbum"
        /\ creq[r].pc = "done"
        /\ creq[r].linked)
       => /\ creq[r].status = 400
          /\ creq[r].error = "Song is already on this album"

\* C25: a product delete that succeeds (204) removes every bridge row of that
\* product and no song row: each song that was linked to the product still
\* exists, and is returned by the orphan query if it was linked to no other
\* product.
C25_DeleteProductCascade ==
  [][\A r \in Requests :
       (/\ creq[r].op = "deleteProduct" /\ creq[r].pc = "delete"
        /\ creq'[r].pc = "done" /\ creq'[r].status = 204)
       => LET p == creq[r].productId
              linked == {l.song_id : l \in {x \in album_songs : x.album_id = p}}
          IN /\ ~ \E l \in album_songs' : l.album_id = p
             /\ \A l \in album_songs : l.album_id # p => l \in album_songs'
             /\ songs' = songs
             /\ \A s \in linked :
                  /\ s \in songs'
                  /\ (~ \E l \in album_songs : l.song_id = s /\ l.album_id # p)
                       => s \in OrphanedSongs']_vars

\* product 1 held songs 1 and 2, song 1 is also on product 2; after the
\* delete of product 1 only the row of product 2 is left, song 2 is orphaned
\* and song 1 is not
C25_Witness ==
  \E r \in Requests :
     /\ creq[r].op = "deleteProduct" /\ creq[r].pc = "done"
     /\ creq[r].status = 204 /\ creq[r].productId = 1
     /\ nCat = 1
     /\ album_songs = {BridgeRow(3, 2, 1, 1)}
     /\ songs = {1, 2}
     /\ OrphanedSongs = {2}

\* the connection of a permission-check, role-assignment or role-revocation
\* request, by the handler's position: requirePermission (logTable.js lines
\* 44-70) opens it after the session check and has no db.close() on any
\* path; assignRole and revokeRole (adminController lines 226-273, 280-314)
\* open it first and close it in a finally
PConn(r) ==
  IF preq[r].op = "requirePermission"
    THEN IF preq[r].pc = "done" /\ preq[r].status = 401 THEN "none" ELSE "open"
  ELSE IF preq[r].op \in {"assignRole", "revokeRole"}
    THEN IF preq[r].pc = "done" THEN "closed" ELSE "open"
  ELSE "none"

\* C26: no connection acquired by a request is still open once that request
\* has completed, whatever the exit path (success, early rejection, error).
C26_ConnectionReleased ==
  \A r \in Requests :
     /\ creq[r].pc = "done" => creq[r].conn # "open"
     /\ preq[r].pc = "done" => PConn(r) # "open"

\* C27: a checkout commit covers every cart row of the person: each row the
\* successful commit clears from the cart (product row or song row) has an
\* order_item of that order with the row's reference and quantity, one
\* order_item per cleared row.
C27_EveryCartRowOrdered ==
  [][\A r \in Requests :
       (/\ req[r].op = "createOrder" /\ req[r].pc = "clearCart"
        /\ req'[r].pc = "done" /\ req'[r].status = 201)
       => LET cleared == cart_items \ cart_items'
              items == {oi \in order_items : oi.order_id = req[r].orderId}
          IN /\ \A ci \in cleared :
                  \E oi \in items : /\ oi.product_id = ci.product_id
                                    /\ oi.quantity = ci.quantity
             /\ Cardinality(items) = Cardinality(cleared)]_vars

\* C28: a product created with nested songs gets one song row and one bridge
\* row per titled song, with the supplied track number where there is one, and
\* the songs without a supplied track number get distinct track numbers.
C28_NestedSongTracks ==
  \A r \in Requests :
     (/\ creq[r].op = "createProduct" /\ creq[r].pc = "done"
      /\ creq[r].status = 201
      /\ \E p \in products : p.id = creq[r].productId)
     => LET made == creq[r].created
            Track(i) == (CHOOSE l \in album_songs :
                           /\ l.album_id = creq[r].productId
                           /\ l.song_id = made[i].song_id).track_number
        IN /\ Len(made) = Cardinality({i \in DOMAIN creq[r].songsIn :
                                          creq[r].songsIn[i].title # NULL})
           /\ \A i \in DOMAIN made :
                /\ made[i].song_id \in songs
                /\ Cardinality({l \in album_songs :
                                  /\ l.album_id = creq[r].productId
                                  /\ l.song_id = made[i].song_id}) = 1
                /\ made[i].track_number # NULL
                     => Track(i) = made[i].track_number
           /\ \A i, j \in DOMAIN made :
                (/\ i # j
                 /\ made[i].track_number = NULL
                 /\ made[j].track_number = NULL) => Track(i) # Track(j)

\* C29: when an up run that has applied 002 comes to 003, the
\* user_human_mapping table that 003 requires exists, whatever the legacy
\* users table held (any number of users, none included).
C29_Up002Enables003 ==
  (/\ run.cmd = "up" /\ run.pc = "up"
   /\ run.pending[run.idx] = 3
   /\ 2 \in run.applied)
  => mappingTable

\* C30: after any sequence of up and down runs from an empty ledger, failing
\* runs included, the ledger holds exactly the first k declared migrations
\* for some k, written in declared order, so its highest id is the row
\* written most recently.
C30_LedgerIsPrefix ==
  \E k \in 0..Len(migrations) :
     /\ ledger = {migrations[i] : i \in 1..k}
     /\ executedOrder = SubSeq(migrations, 1, k)
     /\ k > 0 => LastExecuted(ledger) = executedOrder[k]

\* a third run has failed (a down of 003, or an up that threw) on a ledger
\* that earlier runs had built and cut back, and the ledger is the prefix
\* 001, 002
C30_Witness ==
  /\ nRuns = 3
  /\ run.outcome = "failed"
  /\ ledger = {1, 2}
  /\ executedOrder = <<1, 2>>
  /\ upCount[2] >= 1

=============================================================================
